---- MODULE Spec2Model ----
(***************************************************************************)
(* State-machine model of the DeFi Risk Guardian backend: the portfolio    *)
(* service (users and portfolio rows), the rebalance endpoints, the price  *)
(* oracle client and the Redis cache wrapper.                              *)
(*                                                                         *)
(* Conventions.  Python None is the string "None" where the value is a     *)
(* string, NoPrice (-1) where it is a price, and the empty tuple Nil where *)
(* it is the answer of the cache.  Prices are in cents, balances in whole  *)
(* units.  An exception raised by a price source is the outcome Raises.    *)
(***************************************************************************)
EXTENDS Integers, Sequences, FiniteSets, TLC

VARIABLES
    users,              \* rows of table users
    portfolios,         \* rows of table portfolios
    alerts,             \* rows of table risk_alerts
    rebalance_history,  \* rows of table rebalance_history, oldest first
    risk_metrics,       \* rows of table risk_metrics, oldest first
    nextUserId,         \* next primary key of users
    nextAssetId,        \* next primary key of portfolios
    nextAlertId,        \* next primary key of risk_alerts
    chain,              \* what Horizon reports for each account
    redisUp,            \* whether the Redis server answers
    connected,          \* CacheService.connected
    redis_client,       \* CacheService.redis_client
    store,              \* contents of Redis: key -> serialized value
    resp,               \* answer of the request handled by the last step
    oracleCall,         \* record of the last get_asset_price call
    cacheCall,          \* record of the last direct cache wrapper call
    tasks,              \* the coroutines of a running get_multiple_prices
    handlers            \* the requests handled step by step: where each stands

dbVars    == <<users, portfolios, alerts, rebalance_history, risk_metrics,
               nextUserId, nextAssetId, nextAlertId>>
cacheVars == <<connected, redis_client, store>>
vars      == <<users, portfolios, alerts, rebalance_history, risk_metrics,
               nextUserId, nextAssetId, nextAlertId, chain, redisUp,
               connected, redis_client, store, resp, oracleCall, cacheCall, tasks,
               handlers>>

(***************************************************************************)
(* Bounds of the model.                                                    *)
(***************************************************************************)
MaxAssetId == 2     \* portfolio rows ever inserted
MaxHistory == 2     \* rebalance-history rows ever inserted
MaxMetrics == 2     \* risk-metrics rows ever inserted
MaxAlerts == 2      \* alerts ever created through create_alert

(***************************************************************************)
(* Values.                                                                 *)
(***************************************************************************)
None    == "None"
Nil     == << >>
NoPrice == 0 - 1
Raises  == 0 - 2

Some(v) == <<v>>

\* Issuer of the mock USDC row of create_user; a well-formed address.
USDC_ISSUER == "GA5Z"
\* An issuer string that is not a well-formed address.
BAD_ISSUER  == "XLM"

AssetCodes == {"XLM", "USDC"}
Issuers    == {None, USDC_ISSUER, BAD_ISSUER}

\* Wallet addresses of requests: two well-formed ones, the first of them
\* with surrounding blanks, and one malformed.
W1   == "GDVK"
W2   == "GBBB"
W1sp == " GDVK "
WBad == "invalid_wallet"
WalletInputs == {W1, W2, W1sp, WBad}

strip(s) == IF s = W1sp THEN W1 ELSE s

\* Keypair.from_public_key accepts exactly the real public keys.
PublicKeys == {W1, W2, USDC_ISSUER}

validate_stellar_address(address) ==
    /\ address # None
    /\ address # ""
    /\ strip(address) \in PublicKeys

(***************************************************************************)
(* CacheService (services/cache.py).                                       *)
(***************************************************************************)
json_dumps(v) == <<"json", v>>
json_loads(s) == s[2]

\* A cache as seen by one call: the wrapper's fields and the Redis contents.
CacheOf(conn, client, st) == [connected |-> conn, redis_client |-> client, store |-> st]

\* A wrapper that pings whenever it has a client, and so reconnects.
is_connected_retrying(c, up) ==
    IF c.redis_client = None
    THEN [ok |-> FALSE, cache |-> c]
    ELSE [ok |-> up, cache |-> [c EXCEPT !.connected = up]]

\* is_connected: answer and the wrapper's connected flag afterwards.
is_connected(c, up) ==
    IF ~c.connected \/ c.redis_client = None
    THEN [ok |-> FALSE, cache |-> c]
    ELSE IF up
         THEN [ok |-> TRUE, cache |-> c]
         ELSE [ok |-> FALSE, cache |-> [c EXCEPT !.connected = FALSE]]

\* A wrapper without the except clauses: the exception reaches the caller.
except_propagates(outcome, default) == outcome

\* The except clauses of get, set and delete: an exception of the Redis
\* operation becomes the default answer.  An outcome is a record
\* [raised, value].
except_returns(outcome, default) ==
    IF outcome.raised THEN [raised |-> FALSE, value |-> default] ELSE outcome

Returned(v) == [raised |-> FALSE, value |-> v]
Raised      == [raised |-> TRUE, value |-> Nil]

\* get: the value is Nil for None and Some(v) for a stored v.  opFails says
\* that the Redis operation (or json.loads) raises.
cache_get(c, up, key, opFails) ==
    LET ic == is_connected(c, up) IN
    IF ~ic.ok
    THEN [out |-> Returned(Nil), cache |-> ic.cache]
    ELSE LET raw == IF opFails THEN Raised
                    ELSE IF ic.cache.store[key] # Nil
                         THEN Returned(Some(json_loads(ic.cache.store[key])))
                         ELSE Returned(Nil)
         IN [out |-> except_returns(raw, Nil), cache |-> ic.cache]

\* set: the value is what setex answers (TRUE), FALSE on failure.
cache_set(c, up, key, value, opFails) ==
    LET ic == is_connected(c, up) IN
    IF ~ic.ok
    THEN [out |-> Returned(FALSE), cache |-> ic.cache]
    ELSE IF opFails
         THEN [out |-> except_returns(Raised, FALSE), cache |-> ic.cache]
         ELSE [out |-> except_returns(Returned(TRUE), FALSE),
               cache |-> [ic.cache EXCEPT !.store[key] = json_dumps(value)]]

\* delete: the value is TRUE when a key was removed, FALSE otherwise.
cache_delete(c, up, key, opFails) ==
    LET ic == is_connected(c, up) IN
    IF ~ic.ok
    THEN [out |-> Returned(FALSE), cache |-> ic.cache]
    ELSE IF opFails
         THEN [out |-> except_returns(Raised, FALSE), cache |-> ic.cache]
         ELSE [out |-> except_returns(Returned(ic.cache.store[key] # Nil), FALSE),
               cache |-> [ic.cache EXCEPT !.store[key] = Nil]]

(***************************************************************************)
(* StellarOracleClient.get_asset_price (services/stellar_oracle.py).       *)
(***************************************************************************)
\* Asset codes the oracle is asked about: the portfolio's codes, a code in
\* lower case and a code without a hard-coded fallback price.
OracleCodes == AssetCodes \cup {"xlm", "BTC"}

\* The assets the price endpoint is asked about.
OracleAssets == {<<"XLM", None>>, <<"BTC", USDC_ISSUER>>}
PriceAssets  == OracleAssets \cup {<<"xlm", None>>}

upper(code) == IF code = "xlm" THEN "XLM" ELSE code

\* asset_id and cache_key: "price:CODE" or "price:CODE:ISSUER".
oracle_asset_id(code, issuer) ==
    IF issuer # None /\ issuer # "" THEN <<code, issuer>> ELSE <<code>>

\* A key that leaves the issuer out.
price_key_by_code(code, issuer) == <<"price", code>>

price_key(code, issuer)   == <<"price">> \o oracle_asset_id(code, issuer)
history_key(code, issuer) == <<"history">> \o oracle_asset_id(code, issuer) \o <<"30", "1h">>

PriceKeys   == {price_key(c, i) : c \in OracleCodes, i \in Issuers}
OracleKeys  == {price_key(a[1], a[2]) : a \in OracleAssets}
HistoryKeys == {history_key(c, i) : c \in AssetCodes, i \in Issuers}
Keys        == PriceKeys \cup HistoryKeys

\* The contracts with the first two swapped.
contracts_cex_first == <<"external_cex", "stellar_dex", "fiat">>

\* The order of the sources.
contracts_to_try == <<"stellar_dex", "external_cex", "fiat">>
ExternalSources  == {"stellar_dex", "external_cex", "fiat", "dex_trades"}

\* What one consultation of an external source can give: no price, an
\* exception, or a price.  Each source quotes its own prices, so that a
\* returned price tells its source.
PricesOf(source) ==
    CASE source = "stellar_dex"  -> {11}
      [] source = "external_cex" -> {21}
      [] source = "fiat"         -> {31}
      [] source = "dex_trades"   -> {41}

\* The sources that are seen to raise.
RaisingSources == {"stellar_dex", "dex_trades"}

Outcomes(source) ==
    {NoPrice} \cup PricesOf(source)
              \cup (IF source \in RaisingSources THEN {Raises} ELSE {})

AllOutcomes == UNION {Outcomes(src) : src \in ExternalSources}

\* The environment of one get_asset_price call.
OracleEnvs ==
    {[outs |-> o, getFails |-> g, setFails |-> s] :
        o \in {f \in [ExternalSources -> AllOutcomes] :
                  \A src \in ExternalSources : f[src] \in Outcomes(src)},
        g \in BOOLEAN, s \in BOOLEAN}

TTL_CONTRACT == 300
TTL_DEX      == 120

FALLBACK_XLM  == 12
FALLBACK_USDC == 100

\* The hard-coded prices of the last resort.
fallback_price(code) ==
    IF upper(code) = "XLM" THEN FALLBACK_XLM
    ELSE IF upper(code) = "USDC" THEN FALLBACK_USDC
    ELSE NoPrice

\* An exception of a source is caught and counts as no price.
yielded(outcome) == IF outcome = Raises THEN NoPrice ELSE outcome

\* The loop over contracts_to_try, from index i: the first contract that
\* yields a price ends the loop.  outcomes lists what each consulted
\* contract gave.
RECURSIVE try_contracts(_, _)
try_contracts(i, outs) ==
    IF i > Len(contracts_to_try)
    THEN [price |-> NoPrice, consulted |-> << >>, outcomes |-> << >>]
    ELSE LET ct == contracts_to_try[i]
             p  == yielded(outs[ct])
         IN IF p # NoPrice
            THEN [price |-> p, consulted |-> <<ct>>, outcomes |-> <<outs[ct]>>]
            ELSE LET rest == try_contracts(i + 1, outs)
                 IN [rest EXCEPT !.consulted = <<ct>> \o @,
                                 !.outcomes = <<outs[ct]>> \o @]

\* The sources after the cache: contracts, DEX trades, fallback.  Gives the
\* price, the sources consulted with their outcomes and the ttl of the
\* cache write.
price_from_sources(code, outs) ==
    LET tc == try_contracts(1, outs) IN
    IF tc.price # NoPrice
    THEN [price |-> tc.price, consulted |-> tc.consulted,
          outcomes |-> tc.outcomes, ttl |-> TTL_CONTRACT]
    ELSE LET d == yielded(outs["dex_trades"]) IN
         IF d # NoPrice
         THEN [price |-> d, consulted |-> tc.consulted \o <<"dex_trades">>,
               outcomes |-> tc.outcomes \o <<outs["dex_trades"]>>,
               ttl |-> TTL_DEX]
         ELSE [price |-> fallback_price(code),
               consulted |-> tc.consulted \o <<"dex_trades", "fallback">>,
               outcomes |-> tc.outcomes \o <<outs["dex_trades"], fallback_price(code)>>,
               ttl |-> TTL_CONTRACT]

\* The record of one get_asset_price call: the sources consulted, in
\* order, what each gave (outcomes), the cache writes and the answer.
OracleCall(code, issuer, usable, getFails, consulted, outcomes, writes, stored, price) ==
    [code |-> code, issuer |-> issuer, usable |-> usable, getFails |-> getFails,
     consulted |-> consulted, outcomes |-> outcomes, writes |-> writes,
     stored |-> stored, price |-> price]

NoOracleCall ==
    OracleCall(None, None, FALSE, FALSE, << >>, << >>, << >>, FALSE, NoPrice)

\* get_asset_price: the price (NoPrice for None), the cache afterwards and
\* the record of the call.
get_asset_price(code, issuer, c, up, env) ==
    LET key    == price_key(code, issuer)
        usable == is_connected(c, up).ok
        g      == cache_get(c, up, key, env.getFails)
    IN IF g.out.value # Nil
       THEN [price |-> g.out.value[1], cache |-> g.cache,
             call |-> OracleCall(code, issuer, usable, env.getFails,
                         <<"cache">>, <<g.out.value[1]>>, << >>, FALSE,
                         g.out.value[1])]
       ELSE LET ps == price_from_sources(code, env.outs)
                w  == IF ps.price # NoPrice
                      THEN cache_set(g.cache, up, key, ps.price, env.setFails)
                      ELSE [out |-> Returned(FALSE), cache |-> g.cache]
            IN [price |-> ps.price, cache |-> w.cache,
                call |-> OracleCall(code, issuer, usable, env.getFails,
                            <<"cache">> \o ps.consulted,
                            <<NoPrice>> \o ps.outcomes,
                            IF ps.price # NoPrice
                            THEN <<[key |-> key, value |-> ps.price, ttl |-> ps.ttl]>>
                            ELSE << >>,
                            w.out.value, ps.price)]

\* An environment in which every source is silent; it stands for all
\* environments when the cache cannot be reached, because then the call
\* changes nothing.
QuietEnv ==
    [outs |-> [src \in ExternalSources |-> NoPrice],
     getFails |-> FALSE, setFails |-> FALSE]

\* Whether a failure of the Redis operations can show at all.
FailChoices(c, up) == IF is_connected(c, up).ok THEN BOOLEAN ELSE {FALSE}

\* The environments of n successive get_asset_price calls of one handler.
EnvChoices(c, up, n) ==
    IF is_connected(c, up).ok
    THEN [1..n -> OracleEnvs]
    ELSE {[i \in 1..n |-> QuietEnv]}

\* The cache after get_asset_price has been called for assets[i..] in turn.
RECURSIVE prices_fetched(_, _, _, _, _)
prices_fetched(assets, i, c, up, envs) ==
    IF i > Len(assets)
    THEN c
    ELSE prices_fetched(assets, i + 1,
            get_asset_price(assets[i].asset_code, assets[i].asset_issuer,
                            c, up, envs[i]).cache,
            up, envs)

(***************************************************************************)
(* Portfolio domain: validators.py, utils.py.                              *)
(***************************************************************************)
\* Horizon's answer to the asset query of validate_asset_exists.
HorizonAnswers == {"found", "not_found", "error"}

\* A validation that accepts every asset.
validate_asset_skipped(asset_code, asset_issuer, horizon) == TRUE

validate_asset_exists(asset_code, asset_issuer, horizon) ==
    IF asset_code = None \/ asset_code = "" THEN FALSE
    ELSE IF asset_code # "XLM" /\ (asset_issuer = None \/ asset_issuer = "") THEN FALSE
    ELSE IF asset_code = "XLM" THEN TRUE
    ELSE IF asset_issuer # None /\ ~validate_stellar_address(asset_issuer) THEN FALSE
    ELSE horizon = "found"

\* One entry of what discover_wallet_assets returns.
Discovered(code, issuer, balance) ==
    [asset_code |-> code, asset_issuer |-> issuer, balance |-> balance,
     target_allocation |-> 0, status |-> "owned"]

\* What Horizon can report for an account: the account is unknown (or
\* Horizon fails), or its balances, the native one always among them.
NoAccount == << >>
ChainStates ==
    { NoAccount,
      <<Discovered("XLM", None, 7)>>,
      <<Discovered("XLM", None, 0), Discovered("USDC", USDC_ISSUER, 3)>> }

Accounts == {W1, W2}

\* discover_wallet_assets: the balances, [] when the account call fails.
discover_wallet_assets(wallet_address, ch) ==
    IF wallet_address \in DOMAIN ch THEN ch[wallet_address] ELSE << >>

\* The mock assets create_user uses when nothing was discovered; their
\* price_usd is already set, so no price is fetched for them.
MOCK_XLM_BALANCE  == 1000
MOCK_USDC_BALANCE == 500
mock_assets ==
    <<Discovered("XLM", None, MOCK_XLM_BALANCE),
      Discovered("USDC", USDC_ISSUER, MOCK_USDC_BALANCE)>>

(***************************************************************************)
(* Database rows (models/database.py).  The timestamp columns and          *)
(* target_date are left out: no operation reads them.                      *)
(***************************************************************************)
UserRow(id, wallet, risk) ==
    [id |-> id, wallet_address |-> wallet, risk_tolerance |-> risk]

PortfolioRow(id, uid, code, issuer, balance, target, status, notes) ==
    [id |-> id, user_id |-> uid, asset_code |-> code, asset_issuer |-> issuer,
     balance |-> balance, target_allocation |-> target, status |-> status,
     notes |-> notes]

AlertRow(id, uid, type, severity) ==
    [id |-> id, user_id |-> uid, alert_type |-> type, severity |-> severity,
     is_active |-> TRUE]

\* A lookup that never finds a user.
no_users_by_wallet(us, wallet) == {}

\* db.query(User).filter(User.wallet_address == w): the matching rows;
\* first() takes any of them.
users_by_wallet(us, wallet) == {u \in us : u.wallet_address = wallet}

\* db.query(Portfolio).filter(user_id, asset_code, asset_issuer).
assets_by_pair(ps, uid, code, issuer) ==
    {a \in ps : a.user_id = uid /\ a.asset_code = code /\ a.asset_issuer = issuer}

\* A lookup by id that forgets whose row it is.
assets_by_id_any_user(ps, uid, id) == {a \in ps : a.id = id}

\* db.query(Portfolio).filter(Portfolio.id == asset_id, user_id == uid).
assets_by_id(ps, uid, id) == {a \in ps : a.id = id /\ a.user_id = uid}

\* The rows create_user inserts for the discovered assets of a new user:
\* only assets with a positive balance and no row yet; a hidden row is
\* made owned again.  acc is [rows, next, added].
RECURSIVE store_discovered(_, _, _, _)
store_discovered(assets, i, uid, acc) ==
    IF i > Len(assets) THEN acc
    ELSE LET d  == assets[i]
             ex == assets_by_pair(acc.rows, uid, d.asset_code, d.asset_issuer)
         IN IF d.balance <= 0
            THEN store_discovered(assets, i + 1, uid, acc)
            ELSE IF ex = {}
            THEN store_discovered(assets, i + 1, uid,
                    [rows  |-> acc.rows \cup
                               {PortfolioRow(acc.next, uid, d.asset_code,
                                   d.asset_issuer, d.balance,
                                   d.target_allocation, d.status, None)},
                     next  |-> acc.next + 1,
                     added |-> acc.added + 1])
            ELSE LET e == CHOOSE a \in ex : TRUE
                 IN IF e.status = "hidden"
                    THEN store_discovered(assets, i + 1, uid,
                            [acc EXCEPT
                               !.rows = (@ \ {e}) \cup
                                        {[e EXCEPT !.balance = d.balance,
                                                   !.status = "owned"]},
                               !.added = @ + 1])
                    ELSE store_discovered(assets, i + 1, uid, acc)

\* The four rows of create_sample_alerts.
SAMPLE_ALERTS ==
    << <<"volatility", "medium">>, <<"liquidation", "high">>,
       <<"anomaly", "low">>, <<"rebalance", "medium">> >>

sample_alert_rows(uid, first) ==
    {AlertRow(first + i - 1, uid, SAMPLE_ALERTS[i][1], SAMPLE_ALERTS[i][2]) :
        i \in 1..Len(SAMPLE_ALERTS)}

(***************************************************************************)
(* Responses.                                                              *)
(***************************************************************************)
Response(op, wallet, asset, status, message, uid, data) ==
    [op |-> op, wallet |-> wallet, asset_id |-> asset, status |-> status,
     message |-> message, user_id |-> uid, data |-> data]

NoData == [none |-> TRUE]
NoResp == Response("none", None, 0, 0, "", 0, NoData)

NoCacheCall == [op |-> "none", key |-> Nil, raised |-> FALSE, value |-> FALSE,
                usable |-> FALSE, opFails |-> FALSE]

\* The requests that are followed step by step, and the server processes
\* (uvicorn workers) that handle them.
RequestIds == {1, 2}
Workers    == {1, 2}

\* A handler: the request, the worker that runs it, where it stands and,
\* once answered, its answer.
Handler(op, worker, phase, wallet, body, uid, found, held, status, message, id) ==
    [op |-> op, worker |-> worker, phase |-> phase, wallet |-> wallet,
     body |-> body, user_id |-> uid, found |-> found, held |-> held,
     status |-> status, message |-> message, id |-> id]

IdleHandler == Handler("none", 0, "idle", None, NoData, 0, 0, FALSE, 0, "", 0)

\* get_multiple_prices is not running.
NoTasks == [assets |-> << >>, status |-> << >>, prices |-> {}]

\* A step that calls neither the oracle nor the cache wrapper directly.
Quiet ==
    /\ oracleCall' = NoOracleCall
    /\ cacheCall' = NoCacheCall
    /\ tasks' = tasks
    /\ handlers' = handlers

CurCache == CacheOf(connected, redis_client, store)

SetCache(c) ==
    /\ connected' = c.connected
    /\ redis_client' = c.redis_client
    /\ store' = c.store

\* "x in str(e)" of the endpoints' except clauses.
contains(message, part) ==
    \/ message = part
    \/ message = "Invalid wallet address format" /\ part = "Invalid wallet address"

\* An endpoint that answers 400 to every ValueError.
http_status_flat(message, withAsset) == 400

\* The status an endpoint gives a ValueError of the service; withAsset says
\* that the endpoint has the "Asset not found" branch.
http_status(message, withAsset) ==
    IF contains(message, "Invalid wallet address") THEN 400
    ELSE IF contains(message, "User not found") THEN 404
    ELSE IF withAsset /\ contains(message, "Asset not found") THEN 404
    ELSE 400

\* A request that ends in an error answer and changes nothing.
Rejected(op, wallet, asset, message, withAsset) ==
    /\ resp' = Response(op, wallet, asset, http_status(message, withAsset),
                        message, 0, NoData)
    /\ UNCHANGED <<dbVars, cacheVars, chain, redisUp>> /\ Quiet

(***************************************************************************)
(* PortfolioService.create_user and POST /users.                           *)
(***************************************************************************)
RiskTolerances == {5}

CreateUser(wallet_in, risk) ==
    IF ~validate_stellar_address(wallet_in)
    THEN \* PortfolioCreate's validator: the request never reaches the handler
         /\ resp' = Response("create_user", wallet_in, 0, 422,
                             "Invalid Stellar wallet address", 0, NoData)
         /\ UNCHANGED <<dbVars, cacheVars, chain, redisUp>> /\ Quiet
    ELSE
    LET wallet   == strip(wallet_in)
        existing == users_by_wallet(users, wallet)
    IN IF existing # {}
       THEN \E e \in existing :
              /\ resp' = Response("create_user", wallet, 0, 200,
                                  "User already exists", e.id, NoData)
              /\ UNCHANGED <<dbVars, cacheVars, chain, redisUp>> /\ Quiet
       ELSE LET uid   == nextUserId
                found == discover_wallet_assets(wallet, chain)
                disc  == IF found = << >> THEN mock_assets ELSE found
                acc   == store_discovered(disc, 1, uid,
                            [rows |-> portfolios, next |-> nextAssetId, added |-> 0])
            IN /\ acc.next - 1 <= MaxAssetId
               /\ users' = users \cup {UserRow(uid, wallet, risk)}
               /\ nextUserId' = nextUserId + 1
               /\ \E envs \in EnvChoices(CurCache, redisUp, Len(found)) :
                     SetCache(prices_fetched(found, 1, CurCache, redisUp, envs))
               /\ portfolios' = acc.rows
               /\ nextAssetId' = acc.next
               /\ alerts' = alerts \cup sample_alert_rows(uid, nextAlertId)
               /\ nextAlertId' = nextAlertId + Len(SAMPLE_ALERTS)
               /\ resp' = Response("create_user", wallet, 0, 200,
                                   "User created successfully", uid,
                                   [assets_discovered |-> acc.added])
               /\ UNCHANGED <<rebalance_history, risk_metrics, chain, redisUp>> /\ Quiet

(***************************************************************************)
(* PortfolioService.add_asset and POST /{wallet_address}/assets.           *)
(***************************************************************************)
Statuses == {"owned", "planned", "hidden"}

AssetCreate(code, issuer, balance, target, status, notes) ==
    [asset_code |-> code, asset_issuer |-> issuer, balance |-> balance,
     target_allocation |-> target, status |-> status, notes |-> notes]

\* The request bodies of add_asset: the native asset, an issued asset, the
\* native code with an issuer string, and an issued code without issuer.
AssetCreates ==
    { AssetCreate("XLM", None, 7, 50, "planned", "note"),
      AssetCreate("XLM", None, 0, 0, "owned", None),
      AssetCreate("USDC", USDC_ISSUER, 3, 50, "hidden", "note"),
      AssetCreate("USDC", None, 3, 50, "owned", None) }

\* Horizon is asked only for an issued asset with a well-formed issuer.
HorizonChoices(d) ==
    IF d.asset_code # "XLM" /\ validate_stellar_address(d.asset_issuer)
    THEN HorizonAnswers ELSE {"found"}

\* The answer of add_asset carries the request body and Horizon's answer.
AddAssetResponse(wallet, asset, status, message, uid, asset_data, horizon) ==
    Response("add_asset", wallet, asset, status, message, uid,
             [request |-> asset_data, horizon |-> horizon])

AddAssetRejected(wallet, message, asset_data, horizon) ==
    /\ resp' = AddAssetResponse(wallet, 0, http_status(message, FALSE), message, 0,
                                asset_data, horizon)
    /\ UNCHANGED <<dbVars, cacheVars, chain, redisUp>> /\ Quiet

AddAsset(wallet, asset_data, horizon) ==
    IF ~validate_stellar_address(wallet)
    THEN AddAssetRejected(wallet, "Invalid wallet address format", asset_data, horizon)
    ELSE IF ~validate_asset_exists(asset_data.asset_code, asset_data.asset_issuer, horizon)
    THEN AddAssetRejected(wallet, "Invalid asset", asset_data, horizon)
    ELSE IF users_by_wallet(users, wallet) = {}
    THEN AddAssetRejected(wallet, "User not found", asset_data, horizon)
    ELSE \E user \in users_by_wallet(users, wallet) :
         LET ex == assets_by_pair(portfolios, user.id,
                                  asset_data.asset_code, asset_data.asset_issuer)
         IN /\ IF ex # {}
               THEN \E e \in ex :
                      /\ portfolios' = (portfolios \ {e}) \cup
                            {[e EXCEPT !.balance = asset_data.balance,
                                       !.target_allocation = asset_data.target_allocation,
                                       !.status = asset_data.status,
                                       !.notes = asset_data.notes]}
                      /\ nextAssetId' = nextAssetId
                      /\ resp' = AddAssetResponse(wallet, e.id, 200,
                                    "Asset updated successfully", user.id,
                                    asset_data, horizon)
               ELSE /\ nextAssetId <= MaxAssetId
                    /\ portfolios' = portfolios \cup
                          {PortfolioRow(nextAssetId, user.id, asset_data.asset_code,
                              asset_data.asset_issuer, asset_data.balance,
                              asset_data.target_allocation, asset_data.status,
                              asset_data.notes)}
                    /\ nextAssetId' = nextAssetId + 1
                    /\ resp' = AddAssetResponse(wallet, nextAssetId, 200,
                                    "Asset added successfully", user.id,
                                    asset_data, horizon)
            /\ UNCHANGED <<users, alerts, rebalance_history, risk_metrics, nextUserId, nextAlertId,
                           cacheVars, chain, redisUp>> /\ Quiet

(***************************************************************************)
(* PortfolioService.update_asset and PUT /{wallet}/assets/{asset_id}.      *)
(***************************************************************************)
NoTarget == 0 - 1
AssetUpdate(status, notes, target) ==
    [status |-> status, notes |-> notes, target_allocation |-> target]

\* The request bodies of update_asset.
AssetUpdates ==
    { AssetUpdate(None, None, NoTarget),
      AssetUpdate("hidden", None, NoTarget),
      AssetUpdate("planned", "note", 50),
      AssetUpdate("owned", None, 0) }

AssetIdInputs == 1..(MaxAssetId + 1)

updated_fields(u) ==
    (IF u.status # None THEN {"status"} ELSE {}) \cup
    (IF u.notes # None THEN {"notes"} ELSE {}) \cup
    (IF u.target_allocation # NoTarget THEN {"target_allocation"} ELSE {})

UpdateAsset(wallet, asset_id, update_data) ==
    IF ~validate_stellar_address(wallet)
    THEN Rejected("update_asset", wallet, asset_id, "Invalid wallet address format", TRUE)
    ELSE IF users_by_wallet(users, wallet) = {}
    THEN Rejected("update_asset", wallet, asset_id, "User not found", TRUE)
    ELSE \E user \in users_by_wallet(users, wallet) :
         IF assets_by_id(portfolios, user.id, asset_id) = {}
         THEN Rejected("update_asset", wallet, asset_id, "Asset not found", TRUE)
         ELSE \E asset \in assets_by_id(portfolios, user.id, asset_id) :
              /\ portfolios' = (portfolios \ {asset}) \cup
                    {[asset EXCEPT
                        !.status = IF update_data.status # None
                                   THEN update_data.status ELSE @,
                        !.notes = IF update_data.notes # None
                                  THEN update_data.notes ELSE @,
                        !.target_allocation =
                                  IF update_data.target_allocation # NoTarget
                                  THEN update_data.target_allocation ELSE @]}
              /\ resp' = Response("update_asset", wallet, asset_id, 200,
                                  "Asset updated successfully", user.id,
                                  [updated_fields |-> updated_fields(update_data)])
              /\ UNCHANGED <<users, alerts, rebalance_history, risk_metrics, nextUserId, nextAssetId,
                             nextAlertId, cacheVars, chain, redisUp>> /\ Quiet

(***************************************************************************)
(* PortfolioService.delete_asset and DELETE /{wallet}/assets/{asset_id}.   *)
(***************************************************************************)
\* A delete_asset that removes the row whatever its status.
DeleteAssetAlways(wallet, asset_id) ==
    IF ~validate_stellar_address(wallet)
    THEN Rejected("delete_asset", wallet, asset_id, "Invalid wallet address format", TRUE)
    ELSE IF users_by_wallet(users, wallet) = {}
    THEN Rejected("delete_asset", wallet, asset_id, "User not found", TRUE)
    ELSE \E user \in users_by_wallet(users, wallet) :
         IF assets_by_id(portfolios, user.id, asset_id) = {}
         THEN Rejected("delete_asset", wallet, asset_id, "Asset not found", TRUE)
         ELSE \E asset \in assets_by_id(portfolios, user.id, asset_id) :
              /\ portfolios' = portfolios \ {asset}
              /\ resp' = Response("delete_asset", wallet, asset_id, 200,
                                  IF asset.status = "owned"
                                  THEN "Asset hidden successfully"
                                  ELSE "Asset deleted successfully", user.id, NoData)
              /\ UNCHANGED <<users, alerts, rebalance_history, risk_metrics, nextUserId, nextAssetId,
                             nextAlertId, cacheVars, chain, redisUp>> /\ Quiet

DeleteAsset(wallet, asset_id) ==
    IF ~validate_stellar_address(wallet)
    THEN Rejected("delete_asset", wallet, asset_id, "Invalid wallet address format", TRUE)
    ELSE IF users_by_wallet(users, wallet) = {}
    THEN Rejected("delete_asset", wallet, asset_id, "User not found", TRUE)
    ELSE \E user \in users_by_wallet(users, wallet) :
         IF assets_by_id(portfolios, user.id, asset_id) = {}
         THEN Rejected("delete_asset", wallet, asset_id, "Asset not found", TRUE)
         ELSE \E asset \in assets_by_id(portfolios, user.id, asset_id) :
              /\ IF asset.status = "owned"
                 THEN /\ portfolios' = (portfolios \ {asset}) \cup
                                       {[asset EXCEPT !.status = "hidden"]}
                      /\ resp' = Response("delete_asset", wallet, asset_id, 200,
                                          "Asset hidden successfully", user.id, NoData)
                 ELSE /\ portfolios' = portfolios \ {asset}
                      /\ resp' = Response("delete_asset", wallet, asset_id, 200,
                                          "Asset deleted successfully", user.id, NoData)
              /\ UNCHANGED <<users, alerts, rebalance_history, risk_metrics, nextUserId, nextAssetId,
                             nextAlertId, cacheVars, chain, redisUp>> /\ Quiet

(***************************************************************************)
(* PortfolioService.sync_portfolio and POST /{wallet_address}/sync.        *)
(***************************************************************************)
\* The key of current_asset_map: "CODE:ISSUER", with 'XLM' for no issuer.
sync_key(code, issuer) ==
    <<code, IF issuer = None \/ issuer = "" THEN "XLM" ELSE issuer>>

\* A map that has lost the current rows.
current_asset_maps_empty(current) == {[k \in {} |-> 0]}

\* current_asset_map: one row id per key.  The query has no ORDER BY, so
\* of several rows with one key any can be the one the dict keeps.
current_asset_maps(current) ==
    LET ks == {sync_key(a.asset_code, a.asset_issuer) : a \in current}
    IN {m \in [ks -> {a.id : a \in current}] :
          \A k \in ks : \E a \in current :
              a.id = m[k] /\ sync_key(a.asset_code, a.asset_issuer) = k}

\* The loop over the discovered assets; acc is [rows, next, added, updated].
RECURSIVE sync_discovered(_, _, _, _, _)
sync_discovered(assets, i, uid, m, acc) ==
    IF i > Len(assets) THEN acc
    ELSE LET d == assets[i]
             k == sync_key(d.asset_code, d.asset_issuer)
         IN IF k \in DOMAIN m
            THEN LET e == CHOOSE a \in acc.rows : a.id = m[k]
                 IN IF e.balance # d.balance
                    THEN sync_discovered(assets, i + 1, uid, m,
                            [acc EXCEPT
                               !.rows = (@ \ {e}) \cup {[e EXCEPT !.balance = d.balance]},
                               !.updated = @ + 1])
                    ELSE sync_discovered(assets, i + 1, uid, m, acc)
            ELSE IF d.balance > 0
                 THEN sync_discovered(assets, i + 1, uid, m,
                         [acc EXCEPT
                            !.rows = @ \cup
                                     {PortfolioRow(acc.next, uid, d.asset_code,
                                         d.asset_issuer, d.balance, 0, "owned", None)},
                            !.next = @ + 1,
                            !.added = @ + 1])
                 ELSE sync_discovered(assets, i + 1, uid, m, acc)

SyncPortfolio(wallet) ==
    IF ~validate_stellar_address(wallet)
    THEN Rejected("sync_portfolio", wallet, 0, "Invalid wallet address format", FALSE)
    ELSE IF users_by_wallet(users, wallet) = {}
    THEN Rejected("sync_portfolio", wallet, 0, "User not found", FALSE)
    ELSE \E user \in users_by_wallet(users, wallet) :
         LET discovered == discover_wallet_assets(wallet, chain)
             current    == {a \in portfolios :
                               a.user_id = user.id /\ a.status # "hidden"}
         IN \E m \in current_asset_maps(current) :
            LET acc == sync_discovered(discovered, 1, user.id, m,
                          [rows |-> portfolios, next |-> nextAssetId,
                           added |-> 0, updated |-> 0])
            IN /\ acc.next - 1 <= MaxAssetId
               /\ portfolios' = acc.rows
               /\ nextAssetId' = acc.next
               /\ resp' = Response("sync_portfolio", wallet, 0, 200,
                                   "Portfolio synced successfully", user.id,
                                   [assets_added |-> acc.added,
                                    assets_updated |-> acc.updated])
               /\ UNCHANGED <<users, alerts, rebalance_history, risk_metrics, nextUserId,
                              nextAlertId, cacheVars, chain, redisUp>> /\ Quiet

(***************************************************************************)
(* PortfolioService.get_asset_details and GET /{wallet}/assets/{asset_id}. *)
(***************************************************************************)
DEX_HISTORY      == "dex_history"
FALLBACK_HISTORY == "fallback_history"

\* The environment of one get_price_history call.
HistoryEnvs ==
    [dex : {"points", "empty", "raises"}, getFails : BOOLEAN, setFails : BOOLEAN]

QuietHistoryEnv == [dex |-> "empty", getFails |-> FALSE, setFails |-> FALSE]

HistoryEnvChoices(c, up) ==
    IF is_connected(c, up).ok THEN HistoryEnvs ELSE {QuietHistoryEnv}

\* get_price_history: the cached history, else the DEX history (cached when
\* it has points), else the fallback data.
get_price_history(code, issuer, c, up, env) ==
    LET key == history_key(code, issuer)
        g   == cache_get(c, up, key, env.getFails)
    IN IF g.out.value # Nil
       THEN [history |-> g.out.value[1], cache |-> g.cache]
       ELSE IF env.dex = "points"
            THEN [history |-> DEX_HISTORY,
                  cache |-> cache_set(g.cache, up, key, DEX_HISTORY, env.setFails).cache]
            ELSE [history |-> FALLBACK_HISTORY, cache |-> g.cache]

\* format_asset_data: value_usd = balance * price_usd.
format_asset_data(asset, price_usd) ==
    [id |-> asset.id, asset_code |-> asset.asset_code,
     asset_issuer |-> asset.asset_issuer, balance |-> asset.balance,
     target_allocation |-> asset.target_allocation, current_allocation |-> 0,
     value_usd |-> asset.balance * price_usd, price_usd |-> price_usd,
     status |-> asset.status, notes |-> asset.notes]

GetAssetDetails(wallet, asset_id) ==
    IF ~validate_stellar_address(wallet)
    THEN Rejected("get_asset_details", wallet, asset_id, "Invalid wallet address format", TRUE)
    ELSE IF users_by_wallet(users, wallet) = {}
    THEN Rejected("get_asset_details", wallet, asset_id, "User not found", TRUE)
    ELSE \E user \in users_by_wallet(users, wallet) :
         IF assets_by_id(portfolios, user.id, asset_id) = {}
         THEN Rejected("get_asset_details", wallet, asset_id, "Asset not found", TRUE)
         ELSE \E asset \in assets_by_id(portfolios, user.id, asset_id) :
              \E envs \in EnvChoices(CurCache, redisUp, 1) :
              LET p == get_asset_price(asset.asset_code, asset.asset_issuer,
                                       CurCache, redisUp, envs[1])
              IN \E henv \in HistoryEnvChoices(p.cache, redisUp) :
                 LET h == get_price_history(asset.asset_code, asset.asset_issuer,
                                            p.cache, redisUp, henv)
                 IN /\ SetCache(h.cache)
                    /\ oracleCall' = p.call
                    /\ resp' = IF p.price = NoPrice
                               THEN \* balance * None raises TypeError
                                    Response("get_asset_details", wallet, asset_id, 500,
                                             "Internal server error", 0, NoData)
                               ELSE Response("get_asset_details", wallet, asset_id, 200,
                                             "", user.id,
                                             [asset |-> format_asset_data(asset, p.price),
                                              price_history |-> h.history])
                    /\ UNCHANGED <<dbVars, chain, redisUp, tasks, handlers>> /\ cacheCall' = NoCacheCall

(***************************************************************************)
(* PortfolioService.get_portfolio and GET /{wallet_address}.               *)
(***************************************************************************)
\* The rows of a query in primary-key order.
RECURSIVE rows_in_order(_)
rows_in_order(rows) ==
    IF rows = {} THEN << >>
    ELSE LET first == CHOOSE a \in rows : \A b \in rows : a.id <= b.id
         IN <<first>> \o rows_in_order(rows \ {first})

\* An environment in which the first contract quotes a price.
ContractEnv ==
    [outs |-> [src \in ExternalSources |->
                  IF src = "stellar_dex" THEN 11 ELSE NoPrice],
     getFails |-> FALSE, setFails |-> FALSE]

\* The environments of the n get_asset_price calls of one listing; without
\* the cache a call gives a quoted price or the fallback price.
ListingEnvs(c, up, n) ==
    IF is_connected(c, up).ok
    THEN [1..n -> OracleEnvs]
    ELSE [1..n -> {QuietEnv, ContractEnv}]

\* The loop of get_portfolio over the rows from index i: a price of None
\* counts as 0.  Gives the formatted assets and the cache afterwards.
RECURSIVE assets_listed(_, _, _, _, _)
assets_listed(rows, i, c, up, envs) ==
    IF i > Len(rows)
    THEN [assets |-> << >>, cache |-> c]
    ELSE LET p     == get_asset_price(rows[i].asset_code, rows[i].asset_issuer,
                                      c, up, envs[i])
             price == IF p.price = NoPrice THEN 0 ELSE p.price
             rest  == assets_listed(rows, i + 1, p.cache, up, envs)
         IN [rest EXCEPT !.assets = <<format_asset_data(rows[i], price)>> \o @]

\* sum(asset["value_usd"] for asset in assets_data), from index i.
RECURSIVE sum_value_usd(_, _)
sum_value_usd(assets, i) ==
    IF i > Len(assets) THEN 0
    ELSE assets[i].value_usd + sum_value_usd(assets, i + 1)

\* current_allocation = value_usd / total_value * 100, in whole percent.
with_allocations(assets, total_value) ==
    [i \in 1..Len(assets) |->
        [assets[i] EXCEPT !.current_allocation =
            IF total_value > 0 THEN (assets[i].value_usd * 100) \div total_value
            ELSE 0]]

RECURSIVE max_of(_)
max_of(S) ==
    IF S = {} THEN 0
    ELSE LET x == CHOOSE y \in S : TRUE
             m == max_of(S \ {x})
         IN IF x > m THEN x ELSE m

\* calculate_simple_risk_score: 60% of the largest allocation plus 40% of a
\* volatility of 0.3, capped at 100; 0 for an empty or worthless portfolio.
calculate_simple_risk_score(assets) ==
    IF assets = << >> \/ sum_value_usd(assets, 1) = 0 THEN 0
    ELSE LET allocations ==
                 {IF assets[i].current_allocation # 0
                  THEN assets[i].current_allocation
                  ELSE assets[i].target_allocation : i \in 1..Len(assets)}
             score == (max_of(allocations) * 6) \div 10 + 12
         IN IF score > 100 THEN 100 ELSE score

GetPortfolio(wallet) ==
    IF ~validate_stellar_address(wallet)
    THEN Rejected("get_portfolio", wallet, 0, "Invalid wallet address format", FALSE)
    ELSE IF users_by_wallet(users, wallet) = {}
    THEN Rejected("get_portfolio", wallet, 0, "User not found", FALSE)
    ELSE \E user \in users_by_wallet(users, wallet) :
         LET rows == rows_in_order({a \in portfolios : a.user_id = user.id})
         IN \E envs \in ListingEnvs(CurCache, redisUp, Len(rows)) :
            LET listed == assets_listed(rows, 1, CurCache, redisUp, envs)
                total  == sum_value_usd(listed.assets, 1)
                assets == with_allocations(listed.assets, total)
            IN /\ SetCache(listed.cache)
               /\ resp' = Response("get_portfolio", wallet, 0, 200, "", user.id,
                                   [assets |-> assets,
                                    total_value |-> total,
                                    risk_score |-> calculate_simple_risk_score(assets)])
               /\ UNCHANGED <<dbVars, chain, redisUp>> /\ Quiet

(***************************************************************************)
(* GET /{wallet_address}/assets/{asset_code}/price.                        *)
(***************************************************************************)
\* The environments of the endpoint's get_asset_price call; the Redis
\* operations can fail only when the cache is reached.
EndpointEnvs(c, up) ==
    {e \in OracleEnvs : e.getFails \in FailChoices(c, up)
                        /\ e.setFails \in FailChoices(c, up)}

GetAssetPriceEndpoint(wallet, asset_code, asset_issuer) ==
    IF ~validate_stellar_address(wallet)
    THEN /\ resp' = Response("get_asset_price", wallet, 0, 400,
                             "Invalid wallet address format", 0, NoData)
         /\ UNCHANGED <<dbVars, cacheVars, chain, redisUp>> /\ Quiet
    ELSE \E env \in EndpointEnvs(CurCache, redisUp) :
         LET p == get_asset_price(asset_code, asset_issuer, CurCache, redisUp, env)
         IN /\ SetCache(p.cache)
            /\ oracleCall' = p.call
            /\ resp' = IF p.price = NoPrice
                       THEN Response("get_asset_price", wallet, 0, 404,
                                     "Asset not found or price unavailable", 0, NoData)
                       ELSE Response("get_asset_price", wallet, 0, 200, "", 0,
                                     [asset_code |-> asset_code,
                                      asset_issuer |-> asset_issuer,
                                      price_usd |-> p.price])
            /\ UNCHANGED <<dbVars, chain, redisUp, tasks, handlers>> /\ cacheCall' = NoCacheCall

(***************************************************************************)
(* POST /rebalance/execute (api/v1/rebalance.py).                          *)
(***************************************************************************)
Order(code, type, diff) ==
    [asset_code |-> code, order_type |-> type, value_difference |-> diff]

\* The order lists of the requests; the order [asset_code |-> "XLM"] lacks
\* the keys the handler reads.
OrderLists ==
    { << >>,
      <<Order("XLM", "buy", 20), Order("USDC", "sell", 0 - 5)>>,
      <<Order("USDC", "sell", 0 - 5), [asset_code |-> "XLM"]>> }

well_formed(order) ==
    {"asset_code", "order_type", "value_difference"} \subseteq DOMAIN order

abs(x) == IF x < 0 THEN 0 - x ELSE x

\* An execution that leaves the order pending.
simulate_order_pending(order) ==
    [asset_code |-> order.asset_code, order_type |-> order.order_type,
     requested_value |-> abs(order.value_difference),
     executed_value |-> 0,
     cost |-> 0,
     status |-> "pending"]

\* simulate_order_execution; executed_value in hundredths, cost in
\* thousandths of the requested value's unit.
simulate_order_execution(order) ==
    [asset_code |-> order.asset_code, order_type |-> order.order_type,
     requested_value |-> abs(order.value_difference),
     executed_value |-> abs(order.value_difference) * 99,
     cost |-> abs(order.value_difference),
     status |-> "executed"]

RECURSIVE total_cost(_, _)
total_cost(results, i) ==
    IF i > Len(results) THEN 0 ELSE results[i].cost + total_cost(results, i + 1)

HistoryRow(uid, orders) ==
    [user_id |-> uid, old_allocation |-> << >>, new_allocation |-> orders,
     rebalance_type |-> "manual", success |-> TRUE]

ExecuteRebalancing(wallet, orders) ==
    IF users_by_wallet(users, wallet) = {}
    THEN /\ resp' = Response("execute_rebalancing", wallet, 0, 404,
                             "User not found", 0, NoData)
         /\ UNCHANGED <<dbVars, cacheVars, chain, redisUp>> /\ Quiet
    ELSE IF \E i \in 1..Len(orders) : ~well_formed(orders[i])
    THEN \* KeyError in simulate_order_execution: rollback, 500
         /\ resp' = Response("execute_rebalancing", wallet, 0, 500,
                             "Error executing rebalancing", 0, NoData)
         /\ UNCHANGED <<dbVars, cacheVars, chain, redisUp>> /\ Quiet
    ELSE \E user \in users_by_wallet(users, wallet) :
         LET results == [i \in 1..Len(orders) |-> simulate_order_execution(orders[i])]
         IN /\ Len(rebalance_history) < MaxHistory
            /\ rebalance_history' = Append(rebalance_history, HistoryRow(user.id, orders))
            /\ resp' = Response("execute_rebalancing", wallet, 0, 200,
                                "Rebalancing executed successfully", user.id,
                                [execution_results |-> results,
                                 total_cost |-> total_cost(results, 1)])
            /\ UNCHANGED <<users, portfolios, alerts, risk_metrics, nextUserId, nextAssetId,
                           nextAlertId, cacheVars, chain, redisUp>> /\ Quiet

(***************************************************************************)
(* POST /rebalance/suggest (api/v1/rebalance.py).  Money is counted in     *)
(* cents (prices are in cents per unit); thresholds and target allocations *)
(* in percent; an allocation is the fraction num / den.                    *)
(***************************************************************************)
\* The orders in which a query without ORDER BY can give its rows.
RowOrders(rows) ==
    {q \in [1..Cardinality(rows) -> rows] :
        \A i, j \in 1..Cardinality(rows) : i # j => q[i] # q[j]}

\* The first loop of suggest_rebalancing, from index i: the priced rows
\* with their values, in row order, and the cache afterwards.
RECURSIVE priced_rows(_, _, _, _, _)
priced_rows(rows, i, c, up, envs) ==
    IF i > Len(rows)
    THEN [entries |-> << >>, cache |-> c]
    ELSE LET p    == get_asset_price(rows[i].asset_code, rows[i].asset_issuer,
                                     c, up, envs[i])
             rest == priced_rows(rows, i + 1, p.cache, up, envs)
         IN IF p.price # NoPrice /\ p.price # 0
            THEN [rest EXCEPT !.entries =
                     <<[asset_code |-> rows[i].asset_code,
                        value |-> rows[i].balance * p.price,
                        target |-> rows[i].target_allocation]>> \o @]
            ELSE rest

\* total_value: every priced row counts.
RECURSIVE sum_values(_, _)
sum_values(entries, i) ==
    IF i > Len(entries) THEN 0
    ELSE entries[i].value + sum_values(entries, i + 1)

\* The keys of the dict current_allocation in insertion order.
RECURSIVE dict_keys(_, _, _)
dict_keys(entries, i, seen) ==
    IF i > Len(entries) THEN << >>
    ELSE IF entries[i].asset_code \in seen
         THEN dict_keys(entries, i + 1, seen)
         ELSE <<entries[i].asset_code>>
                 \o dict_keys(entries, i + 1, seen \cup {entries[i].asset_code})

\* current_allocation[code]: the last row of a code replaces the earlier.
dict_entry(entries, code) ==
    entries[CHOOSE i \in 1..Len(entries) :
               /\ entries[i].asset_code = code
               /\ \A j \in (i + 1)..Len(entries) : entries[j].asset_code # code]

\* The allocation of an entry as num / den: value / total_value, or 0.
allocation_of(entry, total) ==
    IF total > 0 THEN [num |-> entry.value, den |-> total]
    ELSE [num |-> 0, den |-> 1]

\* abs(current_alloc - target_alloc), times 100 * den.
deviation(entry, total) ==
    LET a == allocation_of(entry, total)
    IN abs(100 * a.num - entry.target * a.den)


\* check_rebalance_needed: some key's deviation exceeds the threshold.
check_rebalance_needed(entries, total, threshold) ==
    \E i \in 1..Len(entries) :
       LET e == dict_entry(entries, entries[i].asset_code)
       IN deviation(e, total) > threshold * allocation_of(e, total).den

\* generate_rebalance_orders over the keys from index i: an order for
\* every key whose value is more than one dollar from its target value.
\* value_difference is in hundredths of a cent.
RECURSIVE generate_rebalance_orders(_, _, _, _)
generate_rebalance_orders(entries, keys, i, total) ==
    IF i > Len(keys) THEN << >>
    ELSE LET e    == dict_entry(entries, keys[i])
             diff == total * e.target - 100 * e.value
             rest == generate_rebalance_orders(entries, keys, i + 1, total)
         IN IF abs(diff) > 10000
            THEN <<[asset_code |-> keys[i],
                    order_type |-> IF diff > 0 THEN "buy" ELSE "sell",
                    value_difference |-> diff]>> \o rest
            ELSE rest

\* calculate_estimated_cost: 0.1% of a buy, 0.05% of a sell; in 1/10000 of
\* the unit of value_difference.
RECURSIVE calculate_estimated_cost(_, _)
calculate_estimated_cost(orders, i) ==
    IF i > Len(orders) THEN 0
    ELSE (IF orders[i].order_type = "buy"
          THEN abs(orders[i].value_difference) * 10
          ELSE abs(orders[i].value_difference) * 5)
         + calculate_estimated_cost(orders, i + 1)

\* calculate_risk_improvement: ten times the sum of the deviations, capped
\* at 100; times 100 * den like the deviations.
RECURSIVE sum_deviations(_, _, _, _)
sum_deviations(entries, keys, i, total) ==
    IF i > Len(keys) THEN 0
    ELSE deviation(dict_entry(entries, keys[i]), total)
         + sum_deviations(entries, keys, i + 1, total)

calculate_risk_improvement(entries, keys, total) ==
    LET den == IF total > 0 THEN total ELSE 1
        ten == 10 * sum_deviations(entries, keys, 1, total)
    IN IF ten < 100 * 100 * den THEN ten ELSE 100 * 100 * den

\* The thresholds of the requests, in percent.
Thresholds == {5, 50}

SuggestRebalancing(wallet, threshold) ==
    IF users_by_wallet(users, wallet) = {}
    THEN /\ resp' = Response("suggest_rebalancing", wallet, 0, 404,
                             "User not found", 0, NoData)
         /\ UNCHANGED <<dbVars, cacheVars, chain, redisUp>> /\ Quiet
    ELSE \E user \in users_by_wallet(users, wallet) :
         LET mine == {a \in portfolios : a.user_id = user.id}
         IN IF mine = {}
            THEN /\ resp' = Response("suggest_rebalancing", wallet, 0, 404,
                                     "No portfolio found", user.id, NoData)
                 /\ UNCHANGED <<dbVars, cacheVars, chain, redisUp>> /\ Quiet
            ELSE \E rows \in RowOrders(mine) :
                 \E envs \in ListingEnvs(CurCache, redisUp, Len(rows)) :
                 \E priced \in {priced_rows(rows, 1, CurCache, redisUp, envs)} :
                 LET entries == priced.entries
                     total   == sum_values(entries, 1)
                     keys    == dict_keys(entries, 1, {})
                     should  == check_rebalance_needed(entries, total, threshold)
                     orders  == IF should
                                THEN generate_rebalance_orders(entries, keys, 1, total)
                                ELSE << >>
                 IN /\ SetCache(priced.cache)
                    /\ resp' = Response("suggest_rebalancing", wallet, 0, 200, "",
                          user.id,
                          [threshold |-> threshold,
                           should_rebalance |-> should,
                           current_allocation |->
                              [i \in 1..Len(keys) |->
                                 [asset_code |-> keys[i],
                                  allocation |-> allocation_of(
                                                    dict_entry(entries, keys[i]), total),
                                  target_allocation |->
                                     dict_entry(entries, keys[i]).target]],
                           \* not in the answer: the priced rows the loop saw
                           priced |-> entries,
                           suggested_orders |-> orders,
                           estimated_cost |->
                              IF should THEN calculate_estimated_cost(orders, 1) ELSE 0,
                           risk_improvement |->
                              IF should
                              THEN calculate_risk_improvement(entries, keys, total)
                              ELSE 0])
                    /\ UNCHANGED <<dbVars, chain, redisUp>> /\ Quiet

(***************************************************************************)
(* POST /risk/analyze (api/v1/risk.py).  The analyzer is a collaborator:   *)
(* its answer is an input, its price lookups go through get_asset_price.   *)
(* Ratios are in tenths, the volatility in tenths.                         *)
(***************************************************************************)
Analysis(value, score, volatility, diversification) ==
    [portfolio_value |-> value, var_95 |-> 1, var_99 |-> 2, cvar_95 |-> 3,
     volatility |-> volatility, sharpe_ratio |-> 10, sortino_ratio |-> 10,
     beta |-> 10, max_drawdown |-> 1, risk_score |-> score,
     diversification_ratio |-> diversification, tail_risk |-> 1]

\* What ai_analyzer.analyze_portfolio can answer: a calm and a risky
\* portfolio; it can also raise.
Analyses == {Analysis(84, 50, 3, 15), Analysis(50000, 90, 5, 10)}

\* The recommendations the endpoint derives from the metrics.
recommendations(m) ==
    LET found ==
          (IF m.risk_score > 80
           THEN <<"High risk detected. Consider portfolio rebalancing.">>
           ELSE << >>)
          \o (IF m.diversification_ratio < 12
              THEN <<"Portfolio lacks diversification. Consider adding different asset classes.">>
              ELSE << >>)
          \o (IF m.volatility > 4
              THEN <<"High volatility detected. Consider adding stable assets.">>
              ELSE << >>)
    IN IF found = << >>
       THEN <<"Portfolio risk profile appears balanced.">>
       ELSE found

\* The row save_risk_metrics inserts.
RiskMetricsRow(uid, m) ==
    [user_id |-> uid, portfolio_value |-> m.portfolio_value, var_95 |-> m.var_95,
     var_99 |-> m.var_99, volatility |-> m.volatility,
     sharpe_ratio |-> m.sharpe_ratio, beta |-> m.beta,
     max_drawdown |-> m.max_drawdown]

AnalyzePortfolioRisk(wallet) ==
    IF users_by_wallet(users, wallet) = {}
    THEN /\ resp' = Response("analyze_portfolio_risk", wallet, 0, 404,
                             "User not found", 0, NoData)
         /\ UNCHANGED <<dbVars, cacheVars, chain, redisUp>> /\ Quiet
    ELSE \E user \in users_by_wallet(users, wallet) :
         LET rows == rows_in_order({a \in portfolios : a.user_id = user.id})
         IN IF rows = << >>
            THEN /\ resp' = Response("analyze_portfolio_risk", wallet, 0, 404,
                                     "No portfolio found for user", user.id, NoData)
                 /\ UNCHANGED <<dbVars, cacheVars, chain, redisUp>> /\ Quiet
            ELSE \E envs \in EnvChoices(CurCache, redisUp, Len(rows)) :
                 /\ SetCache(prices_fetched(rows, 1, CurCache, redisUp, envs))
                 /\ \/ \* the analyzer raises: 500, nothing saved
                       /\ resp' = Response("analyze_portfolio_risk", wallet, 0, 500,
                                           "Error analyzing risk", user.id, NoData)
                       /\ risk_metrics' = risk_metrics
                    \/ \E m \in Analyses, saved \in BOOLEAN :
                       \* an error of save_risk_metrics is logged only
                       /\ saved => Len(risk_metrics) < MaxMetrics
                       /\ risk_metrics' = IF saved
                                          THEN Append(risk_metrics,
                                                      RiskMetricsRow(user.id, m))
                                          ELSE risk_metrics
                       /\ resp' = Response("analyze_portfolio_risk", wallet, 0, 200, "",
                                           user.id,
                                           [metrics |-> m,
                                            recommendations |-> recommendations(m)])
                 /\ UNCHANGED <<users, portfolios, alerts, rebalance_history,
                                nextUserId, nextAssetId, nextAlertId, chain, redisUp>>
                 /\ Quiet

\* POST /risk/ai-analysis: the same lookups, analysis and save; the answer
\* carries the predictions and recommendations of the analyzer as well.
ComprehensiveAiAnalysis(wallet) ==
    IF users_by_wallet(users, wallet) = {}
    THEN /\ resp' = Response("comprehensive_ai_analysis", wallet, 0, 404,
                             "User not found", 0, NoData)
         /\ UNCHANGED <<dbVars, cacheVars, chain, redisUp>> /\ Quiet
    ELSE \E user \in users_by_wallet(users, wallet) :
         LET rows == rows_in_order({a \in portfolios : a.user_id = user.id})
         IN IF rows = << >>
            THEN /\ resp' = Response("comprehensive_ai_analysis", wallet, 0, 404,
                                     "No portfolio found for user", user.id, NoData)
                 /\ UNCHANGED <<dbVars, cacheVars, chain, redisUp>> /\ Quiet
            ELSE \E envs \in EnvChoices(CurCache, redisUp, Len(rows)) :
                 /\ SetCache(prices_fetched(rows, 1, CurCache, redisUp, envs))
                 /\ \/ \* the analyzer raises: 500, nothing saved
                       /\ resp' = Response("comprehensive_ai_analysis", wallet, 0, 500,
                                           "Error in AI analysis", user.id, NoData)
                       /\ risk_metrics' = risk_metrics
                    \/ \E m \in Analyses, saved \in BOOLEAN :
                       \* an error of save_risk_metrics is logged only
                       /\ saved => Len(risk_metrics) < MaxMetrics
                       /\ risk_metrics' = IF saved
                                          THEN Append(risk_metrics,
                                                      RiskMetricsRow(user.id, m))
                                          ELSE risk_metrics
                       /\ resp' = Response("comprehensive_ai_analysis", wallet, 0, 200, "",
                                           user.id,
                                           [metrics |-> m,
                                            recommendations |-> recommendations(m)])
                 /\ UNCHANGED <<users, portfolios, alerts, rebalance_history,
                                nextUserId, nextAssetId, nextAlertId, chain, redisUp>>
                 /\ Quiet

\* GET /risk/{wallet_address}/metrics: the row of the user that was
\* calculated last.
latest_metrics(uid) ==
    LET own == {i \in 1..Len(risk_metrics) : risk_metrics[i].user_id = uid}
    IN IF own = {} THEN << >>
       ELSE <<risk_metrics[CHOOSE i \in own : \A j \in own : j <= i]>>

GetRiskMetrics(wallet) ==
    /\ IF users_by_wallet(users, wallet) = {}
       THEN resp' = Response("get_risk_metrics", wallet, 0, 404, "User not found", 0, NoData)
       ELSE \E user \in users_by_wallet(users, wallet) :
            IF latest_metrics(user.id) = << >>
            THEN resp' = Response("get_risk_metrics", wallet, 0, 404,
                                  "No risk metrics found", user.id, NoData)
            ELSE resp' = Response("get_risk_metrics", wallet, 0, 200, "", user.id,
                                  [metrics |-> latest_metrics(user.id)[1]])
    /\ UNCHANGED <<dbVars, cacheVars, chain, redisUp>> /\ Quiet

(***************************************************************************)
(* The alerts endpoints (api/v1/alerts.py).  None of them validates the    *)
(* wallet address; resolve and delete take the alert id alone.             *)
(***************************************************************************)
AlertCreate(type, severity) == [alert_type |-> type, severity |-> severity]

\* The bodies of create_alert: neither is one of the sample alerts.
AlertCreates == {AlertCreate("custom", "critical"), AlertCreate("volatility", "high")}

\* The alert ids of the requests: a sample alert and the first two that
\* create_alert makes.
AlertIdInputs == {1, Len(SAMPLE_ALERTS) + 1, Len(SAMPLE_ALERTS) + 2}

\* How many alerts create_alert has made: create_user makes the others.
alerts_created == nextAlertId - 1 - Len(SAMPLE_ALERTS) * Cardinality(users)

\* order_by(triggered_at.desc()).limit(n): the n latest rows (the rows of
\* one user are stamped in the order of their ids).
latest(rows, n) ==
    IF Cardinality(rows) <= n THEN rows
    ELSE {a \in rows : Cardinality({b \in rows : b.id > a.id}) < n}

ALERTS_LIMIT == 50

alerts_by_id(as, alert_id) == {a \in as : a.id = alert_id}

UserNotFound(op, wallet) ==
    /\ resp' = Response(op, wallet, 0, 404, "User not found", 0, NoData)
    /\ UNCHANGED <<dbVars, cacheVars, chain, redisUp>> /\ Quiet

GetAlerts(wallet) ==
    IF users_by_wallet(users, wallet) = {}
    THEN UserNotFound("get_alerts", wallet)
    ELSE \E user \in users_by_wallet(users, wallet) :
         /\ resp' = Response("get_alerts", wallet, 0, 200, "", user.id,
                       [alerts |-> latest({a \in alerts : a.user_id = user.id},
                                          ALERTS_LIMIT)])
         /\ UNCHANGED <<dbVars, cacheVars, chain, redisUp>> /\ Quiet

\* A listing that forgets the is_active filter.
GetActiveAlertsAll(wallet) ==
    IF users_by_wallet(users, wallet) = {}
    THEN UserNotFound("get_active_alerts", wallet)
    ELSE \E user \in users_by_wallet(users, wallet) :
         /\ resp' = Response("get_active_alerts", wallet, 0, 200, "", user.id,
                       [alerts |-> {a \in alerts : a.user_id = user.id}])
         /\ UNCHANGED <<dbVars, cacheVars, chain, redisUp>> /\ Quiet

GetActiveAlerts(wallet) ==
    IF users_by_wallet(users, wallet) = {}
    THEN UserNotFound("get_active_alerts", wallet)
    ELSE \E user \in users_by_wallet(users, wallet) :
         /\ resp' = Response("get_active_alerts", wallet, 0, 200, "", user.id,
                       [alerts |-> {a \in alerts : a.user_id = user.id /\ a.is_active}])
         /\ UNCHANGED <<dbVars, cacheVars, chain, redisUp>> /\ Quiet

CreateAlert(wallet, alert_data) ==
    IF users_by_wallet(users, wallet) = {}
    THEN UserNotFound("create_alert", wallet)
    ELSE \E user \in users_by_wallet(users, wallet) :
         /\ alerts_created < MaxAlerts
         /\ alerts' = alerts \cup {AlertRow(nextAlertId, user.id,
                                            alert_data.alert_type, alert_data.severity)}
         /\ nextAlertId' = nextAlertId + 1
         /\ resp' = Response("create_alert", wallet, 0, 200,
                             "Alert created successfully", user.id,
                             [alert_id |-> nextAlertId])
         /\ UNCHANGED <<users, portfolios, rebalance_history, risk_metrics,
                        nextUserId, nextAssetId, cacheVars, chain, redisUp>>
         /\ Quiet

ResolveAlert(alert_id) ==
    IF alerts_by_id(alerts, alert_id) = {}
    THEN /\ resp' = Response("resolve_alert", None, 0, 404, "Alert not found", 0,
                             [alert_id |-> alert_id])
         /\ UNCHANGED <<dbVars, cacheVars, chain, redisUp>> /\ Quiet
    ELSE \E alert \in alerts_by_id(alerts, alert_id) :
         /\ alerts' = (alerts \ {alert}) \cup {[alert EXCEPT !.is_active = FALSE]}
         /\ resp' = Response("resolve_alert", None, 0, 200,
                             "Alert resolved successfully", alert.user_id,
                             [alert_id |-> alert_id])
         /\ UNCHANGED <<users, portfolios, rebalance_history, risk_metrics,
                        nextUserId, nextAssetId, nextAlertId, cacheVars, chain, redisUp>>
         /\ Quiet

DeleteAlert(alert_id) ==
    IF alerts_by_id(alerts, alert_id) = {}
    THEN /\ resp' = Response("delete_alert", None, 0, 404, "Alert not found", 0,
                             [alert_id |-> alert_id])
         /\ UNCHANGED <<dbVars, cacheVars, chain, redisUp>> /\ Quiet
    ELSE \E alert \in alerts_by_id(alerts, alert_id) :
         /\ alerts' = alerts \ {alert}
         /\ resp' = Response("delete_alert", None, 0, 200,
                             "Alert deleted successfully", alert.user_id,
                             [alert_id |-> alert_id])
         /\ UNCHANGED <<users, portfolios, rebalance_history, risk_metrics,
                        nextUserId, nextAssetId, nextAlertId, cacheVars, chain, redisUp>>
         /\ Quiet

\* The counts of get_alert_stats; by_type and by_severity hold the values
\* that occur.
GetAlertStats(wallet) ==
    IF users_by_wallet(users, wallet) = {}
    THEN UserNotFound("get_alert_stats", wallet)
    ELSE \E user \in users_by_wallet(users, wallet) :
         LET mine == {a \in alerts : a.user_id = user.id}
         IN /\ resp' = Response("get_alert_stats", wallet, 0, 200, "", user.id,
                 [total_alerts    |-> Cardinality(mine),
                  active_alerts   |-> Cardinality({a \in mine : a.is_active}),
                  resolved_alerts |-> Cardinality({a \in mine : ~a.is_active}),
                  by_type |-> [t \in {a.alert_type : a \in mine} |->
                                 Cardinality({a \in mine : a.alert_type = t})],
                  by_severity |-> [v \in {a.severity : a \in mine} |->
                                     Cardinality({a \in mine : a.severity = v})]])
            /\ UNCHANGED <<dbVars, cacheVars, chain, redisUp>> /\ Quiet

(***************************************************************************)
(* StellarOracleClient.get_multiple_prices.  Calling get_asset_price makes *)
(* a coroutine object, which runs only when it is awaited; the second loop *)
(* awaits the coroutines one after the other.                              *)
(***************************************************************************)
PricedAsset(code, issuer) == [code |-> code, issuer |-> issuer]

\* The asset lists of the calls.
AssetLists ==
    { <<PricedAsset("XLM", None), PricedAsset("BTC", USDC_ISSUER)>>,
      <<PricedAsset("BTC", USDC_ISSUER), PricedAsset("XLM", None),
        PricedAsset("XLM", None)>> }

\* The first loop: one coroutine per asset, none started.
GetMultiplePrices(assets) ==
    /\ tasks = NoTasks
    /\ tasks' = [assets |-> assets,
                 status |-> [i \in 1..Len(assets) |-> "created"],
                 prices |-> {}]
    /\ resp' = NoResp
    /\ oracleCall' = NoOracleCall
    /\ cacheCall' = NoCacheCall
    /\ UNCHANGED <<dbVars, cacheVars, chain, redisUp, handlers>>

\* "price = await task" reaches coroutine j: every earlier one has been
\* awaited to its end.
StartLookup(j) ==
    /\ j \in 1..Len(tasks.assets)
    /\ tasks.status[j] = "created"
    /\ \A i \in 1..(j - 1) : tasks.status[i] = "done"
    /\ tasks' = [tasks EXCEPT !.status[j] = "running"]
    /\ resp' = NoResp
    /\ oracleCall' = NoOracleCall
    /\ cacheCall' = NoCacheCall
    /\ UNCHANGED <<dbVars, cacheVars, chain, redisUp, handlers>>

\* prices[asset_code] = price
prices_with(prices, code, price) ==
    {p \in prices : p[1] # code} \cup {<<code, price>>}

\* Coroutine j ends: its price, unless None, goes into the dict; after the
\* last one the dict is returned.
FinishLookup(j) ==
    /\ j \in 1..Len(tasks.assets)
    /\ tasks.status[j] = "running"
    /\ \E env \in EndpointEnvs(CurCache, redisUp) :
       LET p == get_asset_price(tasks.assets[j].code, tasks.assets[j].issuer,
                                CurCache, redisUp, env)
           prices == IF p.price # NoPrice
                     THEN prices_with(tasks.prices, tasks.assets[j].code, p.price)
                     ELSE tasks.prices
       IN /\ SetCache(p.cache)
          /\ oracleCall' = p.call
          /\ IF j = Len(tasks.assets)
             THEN /\ tasks' = NoTasks
                  /\ resp' = Response("get_multiple_prices", None, 0, 200, "", 0,
                                      [prices |-> prices])
             ELSE /\ tasks' = [tasks EXCEPT !.status[j] = "done", !.prices = prices]
                  /\ resp' = NoResp
    /\ cacheCall' = NoCacheCall
    /\ UNCHANGED <<dbVars, chain, redisUp, handlers>>

(***************************************************************************)
(* Direct calls of the cache wrapper (its other users: the analyzer and    *)
(* the health check).                                                      *)
(***************************************************************************)
CacheValues == {11}

CacheCallOf(op, key, r, opFails) ==
    [op |-> op, key |-> key, raised |-> r.out.raised, value |-> r.out.value,
     usable |-> is_connected(CurCache, redisUp).ok, opFails |-> opFails]

CacheGet(key, opFails) ==
    LET r == cache_get(CurCache, redisUp, key, opFails)
    IN /\ SetCache(r.cache)
       /\ cacheCall' = CacheCallOf("get", key, r, opFails)
       /\ resp' = NoResp
       /\ oracleCall' = NoOracleCall
       /\ UNCHANGED <<dbVars, chain, redisUp, tasks, handlers>>

CacheSet(key, value, opFails) ==
    LET r == cache_set(CurCache, redisUp, key, value, opFails)
    IN /\ SetCache(r.cache)
       /\ cacheCall' = CacheCallOf("set", key, r, opFails)
       /\ resp' = NoResp
       /\ oracleCall' = NoOracleCall
       /\ UNCHANGED <<dbVars, chain, redisUp, tasks, handlers>>

CacheDelete(key, opFails) ==
    LET r == cache_delete(CurCache, redisUp, key, opFails)
    IN /\ SetCache(r.cache)
       /\ cacheCall' = CacheCallOf("delete", key, r, opFails)
       /\ resp' = NoResp
       /\ oracleCall' = NoOracleCall
       /\ UNCHANGED <<dbVars, chain, redisUp, tasks, handlers>>

(***************************************************************************)
(* The environment.                                                        *)
(***************************************************************************)
\* The Redis server goes down or comes back.
RedisFlip ==
    /\ redisUp' = ~redisUp
    /\ resp' = NoResp
    /\ Quiet
    /\ UNCHANGED <<dbVars, cacheVars, chain>>

\* The TTL of a key runs out.
Expire(key) ==
    /\ store[key] # Nil
    /\ store' = [store EXCEPT ![key] = Nil]
    /\ resp' = NoResp
    /\ Quiet
    /\ UNCHANGED <<dbVars, connected, redis_client, chain, redisUp>>

\* The on-chain balances of an account change.
Transfer(account, balances) ==
    /\ chain[account] # balances
    /\ chain' = [chain EXCEPT ![account] = balances]
    /\ resp' = NoResp
    /\ Quiet
    /\ UNCHANGED <<dbVars, cacheVars, redisUp>>

(***************************************************************************)
(* Requests that overlap.  The handlers are coroutines: inside one worker  *)
(* a handler gives way to another one only where it awaits something that  *)
(* suspends; handlers of different workers share the database only, where  *)
(* each query and each commit is one step.                                 *)
(***************************************************************************)
\* create_user is suspended while it awaits the price oracle.
Suspended(h) == h.phase = "pricing" /\ h.body.discovered # << >>

\* Another handler of the worker is running and has not given way.
Busy(worker, r) ==
    \E s \in RequestIds \ {r} :
       /\ handlers[s].worker = worker
       /\ handlers[s].phase \notin {"idle", "answered"}
       /\ ~Suspended(handlers[s])

Answered(h, status, message, id) ==
    [h EXCEPT !.phase = "answered", !.status = status, !.message = message, !.id = id]

\* add_asset up to its last query: the validations (validate_asset_exists
\* calls Horizon without suspending), the user and the row of the pair.
AddAssetQuery(r, worker, wallet, asset_data, horizon) ==
    LET h == Handler("add_asset", worker, "queried", wallet, asset_data, 0, 0, FALSE, 0, "", 0)
        reject(message) ==
            /\ handlers' = [handlers EXCEPT
                  ![r] = Answered(h, http_status(message, FALSE), message, 0)]
            /\ resp' = AddAssetResponse(wallet, 0, http_status(message, FALSE), message, 0,
                                        asset_data, horizon)
    IN /\ handlers[r].phase = "idle"
       /\ ~Busy(worker, r)
       /\ IF ~validate_stellar_address(wallet)
          THEN reject("Invalid wallet address format")
          ELSE IF ~validate_asset_exists(asset_data.asset_code, asset_data.asset_issuer, horizon)
          THEN reject("Invalid asset")
          ELSE IF users_by_wallet(users, wallet) = {}
          THEN reject("User not found")
          ELSE \E user \in users_by_wallet(users, wallet) :
               LET ex == assets_by_pair(portfolios, user.id,
                                        asset_data.asset_code, asset_data.asset_issuer)
               IN /\ \E found \in (IF ex = {} THEN {0} ELSE {e.id : e \in ex}) :
                       handlers' = [handlers EXCEPT
                          ![r] = [h EXCEPT !.user_id = user.id, !.found = found,
                                           !.held = (ex # {})]]
                  /\ resp' = NoResp
       /\ oracleCall' = NoOracleCall
       /\ cacheCall' = NoCacheCall
       /\ UNCHANGED <<dbVars, cacheVars, chain, redisUp, tasks>>

\* add_asset from there: the row found is updated, or a new row is
\* inserted, and the session commits.
AddAssetCommit(r) ==
    LET h == handlers[r]
        d == h.body
    IN /\ h.op = "add_asset"
       /\ h.phase = "queried"
       /\ IF h.found # 0
          THEN /\ portfolios' =
                     { IF a.id = h.found
                       THEN [a EXCEPT !.balance = d.balance,
                                      !.target_allocation = d.target_allocation,
                                      !.status = d.status,
                                      !.notes = d.notes]
                       ELSE a : a \in portfolios }
               /\ nextAssetId' = nextAssetId
               /\ handlers' = [handlers EXCEPT
                     ![r] = Answered(h, 200, "Asset updated successfully", h.found)]
               /\ resp' = AddAssetResponse(h.wallet, h.found, 200,
                             "Asset updated successfully", h.user_id, d, "found")
          ELSE /\ portfolios' = portfolios \cup
                     {PortfolioRow(nextAssetId, h.user_id, d.asset_code, d.asset_issuer,
                                   d.balance, d.target_allocation, d.status, d.notes)}
               /\ nextAssetId' = nextAssetId + 1
               /\ handlers' = [handlers EXCEPT
                     ![r] = Answered(h, 200, "Asset added successfully", nextAssetId)]
               /\ resp' = AddAssetResponse(h.wallet, nextAssetId, 200,
                             "Asset added successfully", h.user_id, d, "found")
       /\ oracleCall' = NoOracleCall
       /\ cacheCall' = NoCacheCall
       /\ UNCHANGED <<users, alerts, rebalance_history, risk_metrics, nextUserId, nextAlertId,
                      cacheVars, chain, redisUp, tasks>>

\* The body of a create_user request and, once the handler has asked
\* Horizon, the assets it has discovered.
Signup(risk, discovered) == [risk_tolerance |-> risk, discovered |-> discovered]

\* create_user up to its first query: the address is validated and the
\* user looked up.
CreateUserStart(r, worker, wallet_in, risk) ==
    LET wallet   == strip(wallet_in)
        h        == Handler("create_user", worker, "checked", wallet, Signup(risk, << >>),
                            0, 0, FALSE, 0, "", 0)
        existing == users_by_wallet(users, wallet)
    IN /\ handlers[r].phase = "idle"
       /\ ~Busy(worker, r)
       /\ IF ~validate_stellar_address(wallet_in)
          THEN /\ handlers' = [handlers EXCEPT
                     ![r] = Answered(h, 422, "Invalid Stellar wallet address", 0)]
               /\ resp' = Response("create_user", wallet_in, 0, 422,
                                   "Invalid Stellar wallet address", 0, NoData)
          ELSE IF existing # {}
          THEN \E e \in existing :
                  /\ handlers' = [handlers EXCEPT
                        ![r] = Answered([h EXCEPT !.held = TRUE], 200,
                                        "User already exists", e.id)]
                  /\ resp' = Response("create_user", wallet, 0, 200,
                                      "User already exists", e.id, NoData)
          ELSE /\ handlers' = [handlers EXCEPT ![r] = h]
               /\ resp' = NoResp
       /\ UNCHANGED <<dbVars, cacheVars, chain, redisUp>>
       /\ oracleCall' = NoOracleCall
       /\ cacheCall' = NoCacheCall
       /\ tasks' = tasks

\* create_user from there to the price loop: the user row is added and
\* committed, then Horizon is asked for the balances.  The commit raises
\* when the database fails, and when a row with the address exists by now
\* (wallet_address is unique); the handler rolls back and the endpoint
\* answers 400.
CreateUserInsert(r, fails) ==
    LET h      == handlers[r]
        failed == IF fails THEN "OperationalError"
                  ELSE IF users_by_wallet(users, h.wallet) # {} THEN "IntegrityError"
                  ELSE ""
    IN /\ h.op = "create_user"
       /\ h.phase = "checked"
       /\ IF failed # ""
          THEN /\ handlers' = [handlers EXCEPT ![r] = Answered(h, 400, failed, 0)]
               /\ resp' = Response("create_user", h.wallet, 0, 400, failed, 0, NoData)
               /\ UNCHANGED <<users, nextUserId>>
          ELSE /\ users' = users \cup {UserRow(nextUserId, h.wallet, h.body.risk_tolerance)}
               /\ nextUserId' = nextUserId + 1
               /\ handlers' = [handlers EXCEPT
                     ![r] = [h EXCEPT !.phase = "pricing", !.user_id = nextUserId,
                                      !.body.discovered =
                                          discover_wallet_assets(h.wallet, chain)]]
               /\ resp' = NoResp
       /\ UNCHANGED <<portfolios, alerts, rebalance_history, risk_metrics, nextAssetId,
                      nextAlertId, cacheVars, chain, redisUp>>
       /\ oracleCall' = NoOracleCall
       /\ cacheCall' = NoCacheCall
       /\ tasks' = tasks

\* create_user from the price loop to the answer: the prices are fetched,
\* the discovered assets (or the mock assets) stored and committed, the
\* sample alerts created.  When the database fails the handler rolls back
\* what it has not committed and the endpoint answers 400.
CreateUserFinish(r, fails) ==
    LET h     == handlers[r]
        found == h.body.discovered
        disc  == IF found = << >> THEN mock_assets ELSE found
        acc   == store_discovered(disc, 1, h.user_id,
                     [rows |-> portfolios, next |-> nextAssetId, added |-> 0])
    IN /\ h.op = "create_user"
       /\ h.phase = "pricing"
       /\ ~Busy(h.worker, r)
       /\ \E envs \in EnvChoices(CurCache, redisUp, Len(found)) :
             SetCache(prices_fetched(found, 1, CurCache, redisUp, envs))
       /\ IF fails
          THEN /\ handlers' = [handlers EXCEPT
                     ![r] = Answered(h, 400, "OperationalError", 0)]
               /\ resp' = Response("create_user", h.wallet, 0, 400, "OperationalError",
                                   0, NoData)
               /\ UNCHANGED <<portfolios, nextAssetId, alerts, nextAlertId>>
          ELSE /\ portfolios' = acc.rows
               /\ nextAssetId' = acc.next
               /\ alerts' = alerts \cup sample_alert_rows(h.user_id, nextAlertId)
               /\ nextAlertId' = nextAlertId + Len(SAMPLE_ALERTS)
               /\ handlers' = [handlers EXCEPT
                     ![r] = Answered(h, 200, "User created successfully", h.user_id)]
               /\ resp' = Response("create_user", h.wallet, 0, 200,
                                   "User created successfully", h.user_id,
                                   [assets_discovered |-> acc.added])
       /\ UNCHANGED <<users, nextUserId, rebalance_history, risk_metrics, chain, redisUp>>
       /\ oracleCall' = NoOracleCall
       /\ cacheCall' = NoCacheCall
       /\ tasks' = tasks

(***************************************************************************)
(* Initial states and specifications.                                      *)
(***************************************************************************)
\* CacheService.__init__: connected exactly when the first ping succeeds.
cache_init(up) ==
    CacheOf(up, IF up THEN "client" ELSE None, [k \in Keys |-> Nil])

InitWith(up, chains) ==
    /\ users = {}
    /\ portfolios = {}
    /\ alerts = {}
    /\ rebalance_history = << >>
    /\ risk_metrics = << >>
    /\ nextUserId = 1
    /\ nextAssetId = 1
    /\ nextAlertId = 1
    /\ chain \in [Accounts -> chains]
    /\ redisUp = up
    /\ connected = cache_init(up).connected
    /\ redis_client = cache_init(up).redis_client
    /\ store = cache_init(up).store
    /\ resp = NoResp
    /\ tasks = NoTasks
    /\ handlers = [r \in RequestIds |-> IdleHandler]
    /\ oracleCall = NoOracleCall
    /\ cacheCall = NoCacheCall

\* The account whose on-chain balances change; the other one keeps its
\* native balance.
MovingAccounts == {W1}
SteadyBalances == <<Discovered("XLM", None, 7)>>

\* Every service starts while Redis is unreachable (as in the test
\* environment) unless said otherwise: the cache wrapper stays disconnected.
Init ==
    /\ InitWith(FALSE, ChainStates)
    /\ \A a \in Accounts \ MovingAccounts : chain[a] = SteadyBalances

\* The portfolio service used by the owner of one funded account, who
\* writes the address with or without surrounding blanks when signing up.
SignupWallets == {W1, W1sp}
OwnerWallets  == {W1}
FundedStates  == ChainStates \ {NoAccount}

InitOwner ==
    /\ Init
    /\ \A a \in MovingAccounts : chain[a] \in FundedStates

Next ==
    \/ \E a \in MovingAccounts, b \in FundedStates : Transfer(a, b)
    \/ \E w \in SignupWallets, r \in RiskTolerances : CreateUser(w, r)
    \/ \E w \in OwnerWallets, d \in AssetCreates :
          \E h \in HorizonChoices(d) : AddAsset(w, d, h)
    \/ \E w \in OwnerWallets, i \in AssetIdInputs, u \in AssetUpdates : UpdateAsset(w, i, u)
    \/ \E w \in OwnerWallets, i \in AssetIdInputs : DeleteAsset(w, i)
    \/ \E w \in OwnerWallets : SyncPortfolio(w)

Spec == InitOwner /\ [][Next]_vars

\* The portfolio service asked under every kind of wallet address, with
\* one request body per operation.
WalletCreates == { AssetCreate("XLM", None, 7, 50, "planned", "note"),
                  AssetCreate("USDC", USDC_ISSUER, 3, 50, "hidden", "note"),
                  AssetCreate("USDC", None, 3, 50, "owned", None) }
WalletUpdates == { AssetUpdate("planned", "note", 50) }

\* The addresses of the requests after signup: two accounts and a string
\* that is no address.
RequestWallets == {W1, W2, WBad}

\* The accounts hold what they held at the start.
InitSteady == Init /\ \A a \in MovingAccounts : chain[a] = SteadyBalances

NextWallets ==
    \/ \E w \in WalletInputs, r \in RiskTolerances : CreateUser(w, r)
    \/ \E w \in RequestWallets, d \in WalletCreates :
          \E h \in HorizonChoices(d) : AddAsset(w, d, h)
    \/ \E w \in RequestWallets, i \in AssetIdInputs, u \in WalletUpdates : UpdateAsset(w, i, u)
    \/ \E w \in RequestWallets, i \in AssetIdInputs : DeleteAsset(w, i)
    \/ \E w \in RequestWallets : SyncPortfolio(w)
    \/ \E w \in RequestWallets, i \in AssetIdInputs : GetAssetDetails(w, i)

SpecWallets == InitSteady /\ [][NextWallets]_vars

\* The rebalance endpoints over users and their portfolios.
NextRebalance ==
    \/ \E w \in Accounts, r \in RiskTolerances : CreateUser(w, r)
    \/ \E w \in OwnerWallets, i \in AssetIdInputs : DeleteAsset(w, i)
    \/ \E w \in Accounts, o \in OrderLists : ExecuteRebalancing(w, o)

SpecRebalance == InitSteady /\ [][NextRebalance]_vars

\* The price endpoint over the users.
NextPrice ==
    \/ \E w \in WalletInputs, r \in RiskTolerances : CreateUser(w, r)
    \/ \E w \in WalletInputs, a \in PriceAssets :
          GetAssetPriceEndpoint(w, a[1], a[2])

SpecPrice == Init /\ [][NextPrice]_vars

\* The price oracle and the cache wrapper, Redis up or down at start.
InitOracle == \E up \in BOOLEAN : InitWith(up, {SteadyBalances})

OracleWallets == {W1, WBad}

NextOracle ==
    \/ RedisFlip
    \/ \E k \in OracleKeys : Expire(k)
    \/ \E k \in OracleKeys : \E f \in FailChoices(CurCache, redisUp) : CacheGet(k, f)
    \/ \E k \in OracleKeys, v \in CacheValues :
          \E f \in FailChoices(CurCache, redisUp) : CacheSet(k, v, f)
    \/ \E k \in OracleKeys : \E f \in FailChoices(CurCache, redisUp) : CacheDelete(k, f)
    \/ \E w \in OracleWallets, a \in OracleAssets :
          GetAssetPriceEndpoint(w, a[1], a[2])

SpecOracle == InitOracle /\ [][NextOracle]_vars

\* The owner's portfolio as the listing shows it.
NextPortfolio ==
    \/ \E w \in OwnerWallets, r \in RiskTolerances : CreateUser(w, r)
    \/ \E w \in OwnerWallets, d \in AssetCreates :
          \E h \in HorizonChoices(d) : AddAsset(w, d, h)
    \/ \E w \in OwnerWallets, i \in AssetIdInputs : DeleteAsset(w, i)
    \/ \E w \in RequestWallets : GetPortfolio(w)

SpecPortfolio == InitSteady /\ [][NextPortfolio]_vars

\* A new user's first steps: signing up, adding assets (each request
\* sets a target allocation) and looking at the result.
NextJourney ==
    \/ \E w \in OwnerWallets, r \in RiskTolerances : CreateUser(w, r)
    \/ \E w \in OwnerWallets, d \in WalletCreates :
          \E h \in HorizonChoices(d) : AddAsset(w, d, h)
    \/ \E w \in OwnerWallets : GetPortfolio(w)

SpecJourney == Init /\ [][NextJourney]_vars

\* A signed-up user who adds no asset and asks for advice.
NextAdvice ==
    \/ \E w \in Accounts, r \in RiskTolerances : CreateUser(w, r)
    \/ \E w \in RequestWallets, t \in Thresholds : SuggestRebalancing(w, t)
    \/ \E w \in RequestWallets : AnalyzePortfolioRisk(w)

SpecAdvice == InitSteady /\ [][NextAdvice]_vars

\* A new user's alerts: created, listed and counted, none deleted.
NextAlertCount ==
    \/ \E w \in Accounts, r \in RiskTolerances : CreateUser(w, r)
    \/ \E w \in RequestWallets, d \in AlertCreates : CreateAlert(w, d)
    \/ \E w \in RequestWallets : GetAlerts(w)
    \/ \E w \in RequestWallets : GetAlertStats(w)

SpecAlertCount == InitSteady /\ [][NextAlertCount]_vars

\* The whole life of the alerts of one user.
NextAlerts ==
    \/ \E w \in OwnerWallets, r \in RiskTolerances : CreateUser(w, r)
    \/ \E w \in Accounts, d \in AlertCreates : CreateAlert(w, d)
    \/ \E i \in AlertIdInputs : ResolveAlert(i)
    \/ \E i \in AlertIdInputs : DeleteAlert(i)
    \/ \E w \in Accounts : GetAlerts(w)
    \/ \E w \in Accounts : GetActiveAlerts(w)
    \/ \E w \in Accounts : GetAlertStats(w)

SpecAlerts == InitSteady /\ [][NextAlerts]_vars

\* The owner's rows, seeded by create_user and added by add_asset, and
\* the advice on them.  One body adds USDC of a second issuer.
SuggestCreates == { AssetCreate("XLM", None, 7, 50, "planned", "note"),
                    AssetCreate("USDC", W2, 3, 50, "owned", None) }

NextSuggest ==
    \/ \E w \in OwnerWallets, r \in RiskTolerances : CreateUser(w, r)
    \/ \E w \in OwnerWallets, d \in SuggestCreates :
          \E h \in HorizonChoices(d) : AddAsset(w, d, h)
    \/ \E w \in Accounts, t \in Thresholds : SuggestRebalancing(w, t)

SpecSuggest == Init /\ [][NextSuggest]_vars

\* get_multiple_prices step by step, with Redis up or down.
NextLookups ==
    \/ \E assets \in AssetLists : GetMultiplePrices(assets)
    \/ \E j \in 1..3 : StartLookup(j)
    \/ \E j \in 1..3 : FinishLookup(j)

SpecLookups == InitOracle /\ [][NextLookups]_vars

\* Two users, each calling the portfolio service under the own address
\* with every asset id.
NextIsolation ==
    \/ \E w \in Accounts, r \in RiskTolerances : CreateUser(w, r)
    \/ \E w \in Accounts, d \in WalletCreates :
          \E h \in HorizonChoices(d) : AddAsset(w, d, h)
    \/ \E w \in Accounts, i \in AssetIdInputs, u \in WalletUpdates : UpdateAsset(w, i, u)
    \/ \E w \in Accounts, i \in AssetIdInputs : DeleteAsset(w, i)
    \/ \E w \in Accounts : SyncPortfolio(w)
    \/ \E w \in Accounts, i \in AssetIdInputs : GetAssetDetails(w, i)
    \/ \E w \in Accounts : GetPortfolio(w)

SpecIsolation == InitSteady /\ [][NextIsolation]_vars

\* A user signs up; then two add_asset requests, each on one of the
\* workers.
NextAddRace ==
    \/ \E w \in OwnerWallets, r \in RiskTolerances : CreateUser(w, r)
    \/ \E r \in RequestIds, k \in Workers, w \in Accounts, d \in SuggestCreates :
          \E h \in HorizonChoices(d) : AddAssetQuery(r, k, w, d, h)
    \/ \E r \in RequestIds : AddAssetCommit(r)

SpecAddRace == InitSteady /\ [][NextAddRace]_vars

\* Two create_user requests, each on one of the workers, with a database
\* that does not fail.
NextSignupRace ==
    \/ \E r \in RequestIds, k \in Workers, w \in Accounts, t \in RiskTolerances :
          CreateUserStart(r, k, w, t)
    \/ \E r \in RequestIds : CreateUserInsert(r, FALSE)
    \/ \E r \in RequestIds : CreateUserFinish(r, FALSE)

SpecSignupRace == InitSteady /\ [][NextSignupRace]_vars

\* Two create_user requests and a database that may fail at a commit.
NextSignupFailure ==
    \/ \E r \in RequestIds, k \in Workers, w \in Accounts, t \in RiskTolerances :
          CreateUserStart(r, k, w, t)
    \/ \E r \in RequestIds, fails \in BOOLEAN : CreateUserInsert(r, fails)
    \/ \E r \in RequestIds, fails \in BOOLEAN : CreateUserFinish(r, fails)

SpecSignupFailure == InitSteady /\ [][NextSignupFailure]_vars

\* The owner of one funded account, whose balances move, edits the
\* portfolio and synchronises it.
NextSync ==
    \/ \E a \in MovingAccounts, b \in FundedStates : Transfer(a, b)
    \/ \E w \in OwnerWallets, r \in RiskTolerances : CreateUser(w, r)
    \/ \E w \in OwnerWallets, d \in WalletCreates :
          \E h \in HorizonChoices(d) : AddAsset(w, d, h)
    \/ \E w \in OwnerWallets, i \in AssetIdInputs, u \in WalletUpdates : UpdateAsset(w, i, u)
    \/ \E w \in OwnerWallets, i \in AssetIdInputs : DeleteAsset(w, i)
    \/ \E w \in RequestWallets : SyncPortfolio(w)

SpecSync == InitOwner /\ [][NextSync]_vars

\* The users of two accounts ask for risk analyses and for the metrics
\* saved last.
NextMetrics ==
    \/ \E w \in Accounts, r \in RiskTolerances : CreateUser(w, r)
    \/ \E w \in Accounts : AnalyzePortfolioRisk(w)
    \/ \E w \in Accounts : ComprehensiveAiAnalysis(w)
    \/ \E w \in Accounts : GetRiskMetrics(w)

SpecMetrics == InitSteady /\ [][NextMetrics]_vars

(***************************************************************************)
(* Properties.                                                             *)
(***************************************************************************)

\* C1: after any sequence of create_user calls there is at most one user row
\* per wallet address, and a create_user call for a wallet address that
\* already has a user answers "User already exists" with that user's id and
\* adds no user, no portfolio asset and no alert.
C1_OneUserPerWallet ==
    [][ /\ \A u1, u2 \in users' :
              u1.wallet_address = u2.wallet_address => u1 = u2
        /\ resp'.op = "create_user" =>
              \A u \in users :
                 u.wallet_address = resp'.wallet =>
                    /\ resp'.message = "User already exists"
                    /\ resp'.user_id = u.id
                    /\ users' = users
                    /\ portfolios' = portfolios
                    /\ alerts' = alerts ]_vars

C1_Witness ==
    /\ resp.op = "create_user"
    /\ resp.message = "User already exists"
    /\ Cardinality(users) = 2
    /\ \E u \in users : u.id = resp.user_id /\ u.wallet_address = resp.wallet

\* C2: each user owns at most one portfolio row for any (asset_code,
\* asset_issuer) pair, after any sequence of create_user, add_asset,
\* update_asset, delete_asset and sync_portfolio calls.
C2_OneRowPerPair ==
    \A a, b \in portfolios :
       ( /\ a.user_id = b.user_id
         /\ a.asset_code = b.asset_code
         /\ a.asset_issuer = b.asset_issuer ) => a = b

\* C3: execute_rebalancing never changes a portfolio row; a successful call
\* returns one result with status "executed" per submitted order and appends
\* exactly one history record (type "manual", success true) for the
\* wallet's user.
C3_ExecutionIsSimulated ==
    [][ resp'.op = "execute_rebalancing" =>
          /\ portfolios' = portfolios
          /\ resp'.status = 200 =>
               /\ Len(rebalance_history') = Len(rebalance_history) + 1
               /\ SubSeq(rebalance_history', 1, Len(rebalance_history))
                     = rebalance_history
               /\ LET row     == rebalance_history'[Len(rebalance_history')]
                      results == resp'.data.execution_results
                  IN /\ row.rebalance_type = "manual"
                     /\ row.success = TRUE
                     /\ \E u \in users : /\ u.wallet_address = resp'.wallet
                                         /\ u.id = row.user_id
                     /\ Len(results) = Len(row.new_allocation)
                     /\ \A i \in 1..Len(results) :
                           /\ results[i].status = "executed"
                           /\ results[i].asset_code
                                 = row.new_allocation[i].asset_code ]_vars

C3_Witness ==
    /\ resp.op = "execute_rebalancing"
    /\ resp.status = 200
    /\ Len(resp.data.execution_results) = 2
    /\ Len(rebalance_history) = 2
    /\ \E a \in portfolios : a.status = "hidden"

C5_NoSourceNoPrice ==
    ( /\ Len(oracleCall.consulted) >= 5
      /\ \A i \in 1..5 : oracleCall.outcomes[i] \in {NoPrice, Raises} )
    => oracleCall.price = NoPrice

\* C6: a cache hit of get_asset_price returns the cached price, consults no
\* source and writes nothing; on a miss a price obtained from any source is
\* written once, under the asset's price key, before it is returned; when
\* no price is found nothing is written.
C6_CacheWrites ==
    [][ oracleCall'.consulted # << >> =>
          LET oc  == oracleCall'
              key == IF oc.issuer = None \/ oc.issuer = ""
                     THEN <<"price", oc.code>>
                     ELSE <<"price", oc.code, oc.issuer>>
          IN /\ Len(oc.consulted) = 1 =>
                   /\ oc.writes = << >>
                   /\ store' = store
                   /\ key \in DOMAIN store
                   /\ store[key] # Nil
                   /\ oc.price = store[key][2]
             /\ (Len(oc.consulted) > 1 /\ oc.price # NoPrice) =>
                   /\ Len(oc.writes) = 1
                   /\ oc.writes[1].key = key
                   /\ oc.writes[1].value = oc.price
                   /\ key \in DOMAIN store
                   /\ store' = IF oc.stored = TRUE
                               THEN [store EXCEPT ![key] = <<"json", oc.price>>]
                               ELSE store
             /\ oc.price = NoPrice =>
                   /\ oc.writes = << >>
                   /\ store' = store ]_vars

C6_Witness ==
    /\ Len(oracleCall.consulted) = 6
    /\ oracleCall.issuer = None
    /\ Len(oracleCall.writes) = 1
    /\ oracleCall.stored = TRUE
    /\ store[<<"price", oracleCall.code>>] = <<"json", FALLBACK_XLM>>

\* C7: the cache wrapper never raises; when the store is unreachable or the
\* operation on it fails, get returns None, set returns False and delete
\* returns False, and get_asset_price goes on as on a cache miss.
C7_CacheNeverRaises ==
    /\ cacheCall.op # "none" =>
          /\ ~cacheCall.raised
          /\ (~cacheCall.usable \/ cacheCall.opFails) =>
                CASE cacheCall.op = "get"    -> cacheCall.value = Nil
                  [] cacheCall.op = "set"    -> cacheCall.value = FALSE
                  [] cacheCall.op = "delete" -> cacheCall.value = FALSE
    /\ (oracleCall.consulted # << >> /\ (~oracleCall.usable \/ oracleCall.getFails)) =>
          /\ Len(oracleCall.consulted) > 1
          /\ oracleCall.consulted[2] = "stellar_dex"

C7_Witness ==
    /\ cacheCall.op = "get"
    /\ cacheCall.usable
    /\ cacheCall.opFails
    /\ store[cacheCall.key] # Nil
    /\ cacheCall.value = Nil

\* C8: update_asset, delete_asset, sync_portfolio and get_asset_details
\* answer 400 "Invalid wallet address" for a malformed wallet address,
\* otherwise 404 "User not found" when no user has the address, otherwise
\* (with an asset id) 404 "Asset not found" when the id is not one of the
\* user's assets; in these error cases no user or portfolio row changes.
C8_ErrorAnswers ==
    [][ resp'.op \in {"update_asset", "delete_asset", "sync_portfolio",
                      "get_asset_details"} =>
          LET r      == resp'
              owners == {u \in users : u.wallet_address = r.wallet}
              error(status, message) ==
                  /\ r.status = status
                  /\ r.message = message
                  /\ users' = users
                  /\ portfolios' = portfolios
          IN IF r.wallet \notin {W1, W2, W1sp}
             THEN error(400, "Invalid wallet address format")
             ELSE IF owners = {}
             THEN error(404, "User not found")
             ELSE IF /\ r.op # "sync_portfolio"
                     /\ \A a \in portfolios :
                           a.id = r.asset_id => \A u \in owners : a.user_id # u.id
             THEN error(404, "Asset not found")
             ELSE r.status # 400 /\ r.status # 404 ]_vars

C8_Witness ==
    /\ resp.op = "delete_asset"
    /\ resp.status = 404
    /\ resp.message = "Asset not found"
    /\ \E u \in users : u.wallet_address = resp.wallet
    /\ \E a \in portfolios : a.id = resp.asset_id

\* C9 (as stated): add_asset for a well-formed wallet address that has no
\* user answers 404 "User not found", whatever asset is submitted.
C9_UserNotFoundWhateverAsset ==
    ( /\ resp.op = "add_asset"
      /\ resp.wallet \in {W1, W2, W1sp}
      /\ \A u \in users : u.wallet_address # resp.wallet )
    => (resp.status = 404 /\ resp.message = "User not found")

\* C9 (amended): add_asset for a well-formed wallet address that has no user
\* answers 400 "Invalid asset" when the submitted asset fails the asset
\* validation and 404 "User not found" when it passes; nothing is stored in
\* either case.
C9_UserNotFoundForValidAsset ==
    [][ ( /\ resp'.op = "add_asset"
          /\ resp'.wallet \in {W1, W2, W1sp}
          /\ \A u \in users : u.wallet_address # resp'.wallet ) =>
          LET rq    == resp'.data.request
              valid == \/ rq.asset_code = "XLM"
                       \/ /\ rq.asset_issuer = USDC_ISSUER
                          /\ resp'.data.horizon = "found"
          IN /\ valid  => (resp'.status = 404 /\ resp'.message = "User not found")
             /\ ~valid => (resp'.status = 400 /\ resp'.message = "Invalid asset")
             /\ users' = users
             /\ portfolios' = portfolios
             /\ alerts' = alerts ]_vars

C9_Witness ==
    /\ resp.op = "add_asset"
    /\ resp.wallet = W2
    /\ \A u \in users : u.wallet_address # W2
    /\ users # {}
    /\ resp.data.request.asset_code = "USDC"
    /\ resp.status = 400
    /\ resp.message = "Invalid asset"

\* C10: the asset-price endpoint answers 404 when the wallet address of the
\* request belongs to no user.
C10_UnknownWalletGets404 ==
    ( /\ resp.op = "get_asset_price"
      /\ resp.wallet \in {W1, W2, W1sp}
      /\ \A u \in users : u.wallet_address # resp.wallet )
    => resp.status = 404

\* C11: delete_asset on an asset whose status is "owned" keeps the row and
\* only sets its status to "hidden" (answer "Asset hidden successfully"); on
\* an asset of any other status it removes the row (answer "Asset deleted
\* successfully"); no other portfolio row changes in either case.
C11_HideOwnedRemoveOthers ==
    [][ (resp'.op = "delete_asset" /\ resp'.status = 200) =>
          \E u \in users, a \in portfolios :
             /\ u.wallet_address = resp'.wallet
             /\ a.user_id = u.id
             /\ a.id = resp'.asset_id
             /\ IF a.status = "owned"
                THEN /\ resp'.message = "Asset hidden successfully"
                     /\ portfolios' = (portfolios \ {a})
                                         \cup {[a EXCEPT !.status = "hidden"]}
                     /\ Cardinality(portfolios') = Cardinality(portfolios)
                ELSE /\ resp'.message = "Asset deleted successfully"
                     /\ portfolios' = portfolios \ {a}
                     /\ Cardinality(portfolios') = Cardinality(portfolios) - 1 ]_vars

C11_Witness ==
    /\ resp.op = "delete_asset"
    /\ resp.message = "Asset hidden successfully"
    /\ \E a \in portfolios : a.id = resp.asset_id /\ a.status = "hidden"
    /\ \E b \in portfolios : b.id # resp.asset_id

\* C12: after delete_asset has succeeded for an asset, get_portfolio no
\* longer lists that asset and the asset no longer counts toward
\* total_value (here: in the listing that directly follows the deletion).
C12_DeletedNotListed ==
    [][ ( /\ resp.op = "delete_asset"
          /\ resp.status = 200
          /\ resp'.op = "get_portfolio"
          /\ resp'.status = 200
          /\ resp'.wallet = resp.wallet ) =>
          LET assets == resp'.data.assets
              others == {i \in 1..Len(assets) : assets[i].id # resp.asset_id}
              RECURSIVE value_of(_)
              value_of(I) == IF I = {} THEN 0
                             ELSE LET i == CHOOSE j \in I : TRUE
                                  IN assets[i].value_usd + value_of(I \ {i})
          IN /\ others = 1..Len(assets)
             /\ resp'.data.total_value = value_of(others) ]_vars

\* C13: for a newly created user, once add_asset has succeeded for N assets
\* with pairwise different asset codes, get_portfolio lists exactly N
\* assets.  The rows add_asset has written are those with a target
\* allocation, since signup stores none.
C13_ListsWhatWasAdded ==
    (resp.op = "get_portfolio" /\ resp.status = 200) =>
       LET added == {a.asset_code : a \in {b \in portfolios :
                                             /\ b.user_id = resp.user_id
                                             /\ b.target_allocation # 0}}
       IN added # {} => Len(resp.data.assets) = Cardinality(added)

\* C14: for a user that has been created and has never had an asset added,
\* suggest_rebalancing and analyze_portfolio_risk answer 404 "No portfolio
\* found" (no step of this specification adds an asset).
C14_NoPortfolioWithoutAssets ==
    ( /\ resp.op \in {"suggest_rebalancing", "analyze_portfolio_risk"}
      /\ \E u \in users : u.wallet_address = resp.wallet )
    => /\ resp.status = 404
       /\ resp.message \in {"No portfolio found", "No portfolio found for user"}

\* C15: for a newly created user, after N alerts have been created through
\* create_alert and none deleted, get_alerts returns exactly N alerts and
\* get_alert_stats reports total_alerts = N (no step of this specification
\* deletes an alert).
C15_CountsCreatedAlerts ==
    LET \* the user's alerts that create_alert has made: the sample alerts
        \* of create_user have other (type, severity) pairs than the bodies
        created == {a \in alerts :
                      /\ a.user_id = resp.user_id
                      /\ AlertCreate(a.alert_type, a.severity) \in AlertCreates}
    IN /\ (resp.op = "get_alerts" /\ resp.status = 200)
             => Cardinality(resp.data.alerts) = Cardinality(created)
       /\ (resp.op = "get_alert_stats" /\ resp.status = 200)
             => resp.data.total_alerts = Cardinality(created)

\* C16: get_active_alerts returns exactly the alerts of the wallet's user
\* whose is_active flag is true; once resolve_alert has succeeded for an
\* alert, that alert is never again returned by get_active_alerts, whatever
\* operations follow.
C16_ActiveAlertsOnly ==
    /\ [](  (resp.op = "get_active_alerts" /\ resp.status = 200)
            => /\ \E u \in users : /\ u.wallet_address = resp.wallet
                                   /\ u.id = resp.user_id
               /\ resp.data.alerts = {a \in alerts : /\ a.user_id = resp.user_id
                                                     /\ a.is_active} )
    /\ \A id \in AlertIdInputs :
          []( ( /\ resp.op = "resolve_alert"
                /\ resp.status = 200
                /\ resp.data.alert_id = id )
              => [](  (resp.op = "get_active_alerts" /\ resp.status = 200)
                      => \A a \in resp.data.alerts : a.id # id ) )

\* An alert of the user has been resolved and the user's active alerts,
\* some still there, are listed.
C16_Witness ==
    /\ resp.op = "get_active_alerts"
    /\ resp.status = 200
    /\ resp.data.alerts # {}
    /\ \E a \in alerts : a.user_id = resp.user_id /\ ~a.is_active

\* C17: suggest_rebalancing reports should_rebalance = true exactly when
\* some priced asset's current allocation (its value over the total value)
\* differs from its target allocation by strictly more than the request
\* threshold; whenever it reports false, suggested_orders is empty and
\* estimated_cost and risk_improvement are 0.
C17_RebalanceWhenDeviating ==
    (resp.op = "suggest_rebalancing" /\ resp.status = 200)
    => LET priced == resp.data.priced
           total  == sum_values(priced, 1)
           \* |value / total - target / 100| > threshold / 100
           deviates(e) ==
              IF total > 0
              THEN abs(100 * e.value - e.target * total) > resp.data.threshold * total
              ELSE e.target > resp.data.threshold
       IN /\ resp.data.should_rebalance
                <=> \E i \in 1..Len(priced) : deviates(priced[i])
          /\ ~resp.data.should_rebalance
                => /\ resp.data.suggested_orders = << >>
                   /\ resp.data.estimated_cost = 0
                   /\ resp.data.risk_improvement = 0

\* C18: get_multiple_prices fetches the prices of the requested assets
\* concurrently: the lookup for one asset can start before the lookup for
\* an earlier asset in the list has finished.
C18_LookupsOverlap ==
    \A i, j \in 1..Len(tasks.assets) :
       (i < j /\ tasks.status[i] = "running" /\ tasks.status[j] = "created")
       => ENABLED StartLookup(j)

\* C19: add_asset is an upsert: for a (asset_code, asset_issuer) pair the
\* user already has (in any status, hidden included) it overwrites that
\* row's balance, target_allocation, status and notes, returns that row's
\* existing asset_id and leaves the number of the user's portfolio rows
\* unchanged; submitting the same add_asset twice leaves the same stored
\* state as submitting it once.
C19_AddAssetUpserts ==
    [][ (resp'.op = "add_asset" /\ resp'.status = 200)
        => LET d    == resp'.data.request
               mine == {a \in portfolios : a.user_id = resp'.user_id}
               had  == {a \in mine : /\ a.asset_code = d.asset_code
                                     /\ a.asset_issuer = d.asset_issuer}
           IN /\ had # {}
                 => /\ \E e \in had :
                         /\ resp'.asset_id = e.id
                         /\ portfolios' = (portfolios \ {e}) \cup
                               {[e EXCEPT !.balance = d.balance,
                                          !.target_allocation = d.target_allocation,
                                          !.status = d.status,
                                          !.notes = d.notes]}
                    /\ Cardinality({a \in portfolios' : a.user_id = resp'.user_id})
                          = Cardinality(mine)
              /\ \* the step before was the same submission
                 ( /\ resp.op = "add_asset" /\ resp.status = 200
                   /\ resp.wallet = resp'.wallet
                   /\ resp.data.request = d )
                 => /\ portfolios' = portfolios
                    /\ resp'.asset_id = resp.asset_id
      ]_vars

\* C20: update_asset, delete_asset and get_asset_details called with one
\* user's wallet address and the id of an asset that belongs to a different
\* user answer 404 "Asset not found" and leave that asset unchanged and
\* undisclosed: no sequence of portfolio calls made under one wallet
\* address reads or changes another user's portfolio rows.
C20_OtherUsersRowsUntouched ==
    [][ resp'.op \in {"create_user", "add_asset", "update_asset", "delete_asset",
                      "sync_portfolio", "get_asset_details", "get_portfolio"}
        => LET callers == {u.id : u \in {v \in users' :
                                            v.wallet_address = resp'.wallet}}
               others  == {a \in portfolios : a.user_id \notin callers}
           IN /\ \* the rows of the other users stay as they are
                 {a \in portfolios' : a.user_id \notin callers} = others
              /\ \* an id of another user's row is answered like an unknown id
                 ( /\ resp'.op \in {"update_asset", "delete_asset", "get_asset_details"}
                   /\ callers # {}
                   /\ \E a \in others : a.id = resp'.asset_id )
                 => /\ resp'.status = 404
                    /\ resp'.message = "Asset not found"
                    /\ resp'.data = NoData
              /\ \* what a listing or the details show is a row of the caller
                 (resp'.op = "get_asset_details" /\ resp'.status = 200)
                 => \E a \in portfolios : /\ a.user_id \in callers
                                          /\ a.id = resp'.data.asset.id
              /\ (resp'.op = "get_portfolio" /\ resp'.status = 200)
                 => \A i \in 1..Len(resp'.data.assets) :
                       \E a \in portfolios : /\ a.user_id \in callers
                                             /\ a.id = resp'.data.assets[i].id
      ]_vars

\* A user has asked for the row of another user, which is still there.
C20_Witness ==
    /\ resp.op \in {"update_asset", "delete_asset", "get_asset_details"}
    /\ resp.status = 404
    /\ resp.message = "Asset not found"
    /\ \E u \in users : u.wallet_address = resp.wallet
    /\ \E a \in portfolios :
          /\ a.id = resp.asset_id
          /\ \A u \in users : u.wallet_address = resp.wallet => a.user_id # u.id

\* C21: when two add_asset requests for the same user and the same pair
\* (asset_code, asset_issuer), which the user holds no row of when they
\* start, overlap in time, there is exactly one portfolio row for that pair
\* once both are answered.
C21_OneRowForThePair ==
    \A r, s \in RequestIds :
       LET h == handlers[r]
           g == handlers[s]
       IN ( /\ r # s
            /\ h.op = "add_asset" /\ g.op = "add_asset"
            /\ h.phase = "answered" /\ g.phase = "answered"
            /\ h.status = 200 /\ g.status = 200
            /\ h.user_id = g.user_id
            /\ h.body.asset_code = g.body.asset_code
            /\ h.body.asset_issuer = g.body.asset_issuer
            /\ ~h.held /\ ~g.held )
          => Cardinality(assets_by_pair(portfolios, h.user_id,
                                        h.body.asset_code, h.body.asset_issuer)) = 1

\* C22: when two create_user requests for the same new wallet address
\* overlap in time, exactly one user row results and both requests are
\* answered successfully with that user's id, one with "User created
\* successfully" and the other with "User already exists".
C22_BothSignupsSucceed ==
    \A r, s \in RequestIds :
       LET h == handlers[r]
           g == handlers[s]
       IN ( /\ r # s
            /\ h.op = "create_user" /\ g.op = "create_user"
            /\ h.phase = "answered" /\ g.phase = "answered"
            /\ h.status # 422
            /\ h.wallet = g.wallet )
          => /\ Cardinality(users_by_wallet(users, h.wallet)) = 1
             /\ h.status = 200 /\ g.status = 200
             /\ \A u \in users_by_wallet(users, h.wallet) : h.id = u.id /\ g.id = u.id
             /\ {h.message, g.message} =
                   {"User created successfully", "User already exists"}

\* C25: create_user is all-or-nothing: when a create_user request is
\* answered 400, no user row and no portfolio row of its wallet address
\* remains from it (a row that another request has made may be there).
C25_FailedSignupLeavesNothing ==
    \A r \in RequestIds :
       LET h == handlers[r]
       IN (h.op = "create_user" /\ h.phase = "answered" /\ h.status = 400)
          => \A u \in users_by_wallet(users, h.wallet) :
                \E s \in RequestIds \ {r} :
                   /\ handlers[s].op = "create_user"
                   /\ handlers[s].user_id = u.id
                   /\ handlers[s].status # 400

C24_SecondSyncChangesNothing ==
    [][ ( /\ resp.op = "sync_portfolio" /\ resp.status = 200
          /\ resp'.op = "sync_portfolio" /\ resp'.wallet = resp.wallet )
        => /\ resp'.status = 200
           /\ resp'.data.assets_added = 0
           /\ resp'.data.assets_updated = 0
           /\ portfolios' = portfolios ]_vars

\* C26: get_risk_metrics answers 404 "No risk metrics found" for a user
\* until a risk analysis (analyze or ai-analysis) has succeeded for that
\* user, and from then on returns the metrics computed by the most recent
\* successful analysis: asked right after an analysis of the wallet has
\* answered 200, it returns the metrics of that analysis.
C26_MetricsOfLastAnalysis ==
    [][ ( /\ resp.op \in {"analyze_portfolio_risk", "comprehensive_ai_analysis"}
          /\ resp.status = 200
          /\ resp'.op = "get_risk_metrics"
          /\ resp'.wallet = resp.wallet )
        => /\ resp'.status = 200
           /\ resp'.data.metrics = RiskMetricsRow(resp.user_id, resp.data.metrics) ]_vars

\* C27: once the cache wrapper has marked itself disconnected (the first
\* connection failed, or one ping failed), it stays disconnected: every
\* later get returns None and every later set and delete returns False,
\* also when the Redis server has become reachable again.
C27_StaysDisconnected ==
    [][ ~connected =>
          /\ ~connected'
          /\ store' = store \/ cacheCall'.op = "none"
          /\ CASE cacheCall'.op = "get"    -> cacheCall'.value = Nil
               [] cacheCall'.op = "set"    -> cacheCall'.value = FALSE
               [] cacheCall'.op = "delete" -> cacheCall'.value = FALSE
               [] OTHER -> TRUE ]_vars

\* After a failed ping the server is back and holds the key that was asked
\* for, and the wrapper has answered None.
C27_Witness ==
    /\ ~connected
    /\ redis_client # None
    /\ redisUp
    /\ cacheCall.op = "get"
    /\ store[cacheCall.key] # Nil
    /\ cacheCall.value = Nil

====
